---------------------------- MODULE Spec2Model ----------------------------
(***************************************************************************)
(* A model of the mortgage prepayment engine (mortgage_agent/calculator.py) *)
(* and of the export handler that calls it (mortgage_agent/api.py,         *)
(* mortgage_agent/report.py).                                              *)
(*                                                                         *)
(* The engine is a library of pure functions.  Each function is an         *)
(* operator computed the way the code computes it; each action of the      *)
(* state machine is one call of a function, with arguments drawn from      *)
(* bounded sets, and records the call and what it returned.                *)
(*                                                                         *)
(* Numbers.  Python floats are modelled as exact rationals <<n, d>> in     *)
(* lowest terms with d > 0.  Rounding error is therefore outside the       *)
(* model: an equality that holds here holds in the code up to the          *)
(* floating-point tolerance of the computation.                            *)
(*                                                                         *)
(* Strings that the code inspects character by character (strip, lower)    *)
(* are sequences of one-character strings.  Python's None is the record    *)
(* None; a present optional value v is Some(v).                            *)
(*                                                                         *)
(* The server.  A request to a route passes the API-key dependency, the    *)
(* request model and the limiter's decorator before the handler runs.      *)
(* calls is the log of the functions the handler called, in order, each    *)
(* with what it was passed; hits holds the limiter's counters, one for     *)
(* each client key and route.                                              *)
(***************************************************************************)
EXTENDS Integers, Sequences, FiniteSets, TLC

VARIABLES op, args, ret, calls, hits, precision

vars == <<op, args, ret, calls, hits, precision>>

----------------------------------------------------------------------------
(* Bounds of the model *)

\* Schedules of every length 1..MaxTerm are built, under every rate.
MaxTerm == 4
\* One longer term, past the 12-period loan year (with the rates whose
\* exact arithmetic stays inside TLC's integers).
LongTerm == 13
\* Requests the second client of ServerSpec sends to a route in one window.
MaxOtherHits == 1

----------------------------------------------------------------------------
(* Python float arithmetic: exact, or rounded to precision bits *)

Abs(x) == IF x < 0 THEN -x ELSE x

RECURSIVE GCD(_, _)
GCD(a, b) == IF b = 0 THEN a ELSE GCD(b, a % b)

Rat(n, d) ==
    LET s == IF d < 0 THEN -1 ELSE 1
        g == GCD(Abs(n), Abs(d))
    IN  <<(s * n) \div g, (s * d) \div g>>

R(n) == <<n, 1>>

Zero == R(0)

RNeg(x) == <<-x[1], x[2]>>

\* The float nearest to x in a binary format of precision significant
\* bits, ties going to the even mantissa (IEEE 754 round-to-nearest-even, of
\* which Python's float is the 53-bit case; the exponent range is not
\* modelled).  precision = 0 stands for arithmetic without rounding.
\* ScaleUp and ScaleDown are the powers of 2 that bring |x| = n / d into
\* [2^(bits-1), 2^bits): one of the two is 0.
ScaleUp(n, d, bits) ==
    CHOOSE k \in 0..30 :
        /\ (n \div (2 ^ k)) < d * (2 ^ bits)
        /\ \A j \in 0..(k - 1) : (n \div (2 ^ j)) >= d * (2 ^ bits)

ScaleDown(n, d, bits) ==
    CHOOSE k \in 0..30 :
        /\ n * (2 ^ k) >= d * (2 ^ (bits - 1))
        /\ \A j \in 0..(k - 1) : n * (2 ^ j) < d * (2 ^ (bits - 1))

\* num / den to the nearest whole number, a tie to the even one.
Nearest(num, den) ==
    IF 2 * (num % den) > den \/ (2 * (num % den) = den /\ (num \div den) % 2 = 1)
    THEN (num \div den) + 1
    ELSE num \div den

Fl(x) ==
    IF precision = 0 \/ x[1] = 0 THEN x
    ELSE CHOOSE y \in
             {Rat((IF x[1] < 0 THEN -1 ELSE 1)
                      * Nearest(Abs(x[1]) * (2 ^ s[2]), x[2] * (2 ^ s[1])) * (2 ^ s[1]),
                  2 ^ s[2]) :
                 s \in {<<ScaleUp(Abs(x[1]), x[2], precision),
                          ScaleDown(Abs(x[1]), x[2], precision)>>}} : TRUE

ExactAdd(x, y) ==
    LET g == GCD(x[2], y[2])
    IN  Rat(x[1] * (y[2] \div g) + y[1] * (x[2] \div g), (x[2] \div g) * y[2])

RAdd(x, y) == Fl(ExactAdd(x, y))

RSub(x, y) == RAdd(x, RNeg(y))

ExactMul(x, y) ==
    LET g1 == GCD(Abs(x[1]), y[2])
        g2 == GCD(Abs(y[1]), x[2])
    IN  Rat((x[1] \div g1) * (y[1] \div g2), (x[2] \div g2) * (y[2] \div g1))

RMul(x, y) == Fl(ExactMul(x, y))

\* y # Zero
RDiv(x, y) == RMul(x, Rat(y[2], y[1]))

RLt(x, y) ==
    LET g == GCD(x[2], y[2])
    IN  x[1] * (y[2] \div g) < y[1] * (x[2] \div g)

RLe(x, y) == ~RLt(y, x)

RMin(x, y) == IF RLt(y, x) THEN y ELSE x

RMax(x, y) == IF RLt(x, y) THEN y ELSE x

RatSet == Int \X Int

\* x to the power k >= 0 (math.pow with a whole exponent): the power is
\* rounded once.  The loop is a function of its loop variables, so each step
\* is evaluated before the next.
RPow(x, k) ==
    LET pw[j \in Nat, acc \in RatSet] ==
            IF j = 0 THEN acc ELSE pw[j - 1, ExactMul(acc, x)]
    IN  Fl(pw[k, R(1)])

\* The sum of field f over the rows of a schedule, added up from the first row
\* (Python's sum(row.f for row in rows)).
SumField(rows, f) ==
    LET s[i \in Nat, acc \in RatSet] ==
            IF i > Len(rows) THEN acc ELSE s[i + 1, RAdd(acc, rows[i][f])]
    IN  s[1, Zero]

----------------------------------------------------------------------------
(* calculator.py *)

METHOD_ANNUITY == "equal_payment"
METHOD_EQUAL_PRINCIPAL == "equal_principal"

None == [some |-> FALSE]
Some(v) == [some |-> TRUE, val |-> v]

ScheduleRow(month_index, payment, principal, interest, balance) ==
    [month_index |-> month_index, payment |-> payment, principal |-> principal,
     interest |-> interest, balance |-> balance]

monthly_rate(annual_rate) == RDiv(RDiv(annual_rate, R(100)), R(12))

\* The annuity formula compounding over one period too many.
annuity_payment_extra_period(principal, rate, months) ==
    IF months <= 0 THEN Zero
    ELSE IF rate = Zero THEN RDiv(principal, R(months))
    ELSE LET factor == RPow(RAdd(R(1), rate), months + 1)
         IN  RDiv(RMul(RMul(principal, rate), factor), RSub(factor, R(1)))

\* annuity_payment returning the whole principal, undivided, at rate 0.
annuity_payment_undivided(principal, rate, months) ==
    IF months <= 0 THEN Zero
    ELSE IF rate = Zero THEN principal
    ELSE LET factor == RPow(RAdd(R(1), rate), months)
         IN  RDiv(RMul(RMul(principal, rate), factor), RSub(factor, R(1)))

annuity_payment(principal, rate, months) ==
    IF months <= 0 THEN Zero
    ELSE IF rate = Zero THEN RDiv(principal, R(months))
    ELSE LET factor == RPow(RAdd(R(1), rate), months)
         IN  RDiv(RMul(RMul(principal, rate), factor), RSub(factor, R(1)))

Ok(v) == [raised |-> FALSE, value |-> v]
Raise(e) == [raised |-> TRUE, error |-> e]

\* str.lower() on the letters the method names are written with.
UpperLetters == <<"A", "B", "C", "D", "E", "F", "G", "H", "I", "J", "K", "L", "M",
                  "N", "O", "P", "Q", "R", "S", "T", "U", "V", "W", "X", "Y", "Z">>
LowerLetters == <<"a", "b", "c", "d", "e", "f", "g", "h", "i", "j", "k", "l", "m",
                  "n", "o", "p", "q", "r", "s", "t", "u", "v", "w", "x", "y", "z">>

LowerChar(c) ==
    IF \E i \in 1..Len(UpperLetters) : UpperLetters[i] = c
    THEN LowerLetters[CHOOSE i \in 1..Len(UpperLetters) : UpperLetters[i] = c]
    ELSE c

lower(s) == [i \in 1..Len(s) |-> LowerChar(s[i])]

\* The characters str.strip() removes.
Whitespace == {" ", "\t", "\n", "\r"}

strip(s) ==
    LET keep == {i \in 1..Len(s) : s[i] \notin Whitespace}
    IN  IF keep = {} THEN <<>>
        ELSE SubSeq(s, CHOOSE i \in keep : \A j \in keep : i <= j,
                       CHOOSE i \in keep : \A j \in keep : j <= i)

S_annuity == <<"a", "n", "n", "u", "i", "t", "y">>
S_equal_payment == <<"e", "q", "u", "a", "l", "_", "p", "a", "y", "m", "e", "n", "t">>
S_equal_installment ==
    <<"e", "q", "u", "a", "l", "_", "i", "n", "s", "t", "a", "l", "l", "m", "e", "n", "t">>
S_equal_principal ==
    <<"e", "q", "u", "a", "l", "_", "p", "r", "i", "n", "c", "i", "p", "a", "l">>
S_principal == <<"p", "r", "i", "n", "c", "i", "p", "a", "l">>

\* normalize_method without the strip() call.
normalize_method_no_strip(method) ==
    IF ~method.some \/ method.val = <<>> THEN Raise("ValueError")
    ELSE LET normalized == lower(method.val)
         IN  IF normalized \in {S_annuity, S_equal_payment, S_equal_installment}
             THEN Ok(METHOD_ANNUITY)
             ELSE IF normalized \in {S_equal_principal, S_principal}
                  THEN Ok(METHOD_EQUAL_PRINCIPAL)
                  ELSE Raise("ValueError")

\* method: None or Some(string).
normalize_method(method) ==
    IF ~method.some \/ method.val = <<>> THEN Raise("ValueError")
    ELSE LET normalized == lower(strip(method.val))
         IN  IF normalized \in {S_annuity, S_equal_payment, S_equal_installment}
             THEN Ok(METHOD_ANNUITY)
             ELSE IF normalized \in {S_equal_principal, S_principal}
                  THEN Ok(METHOD_EQUAL_PRINCIPAL)
                  ELSE Raise("ValueError")

IMin(a, b) == IF a < b THEN a ELSE b
IMax(a, b) == IF a > b THEN a ELSE b

Date(y, m, d) == [year |-> y, month |-> m, day |-> d]

\* compute_paid_periods with the date-derived count left unclamped above.
compute_paid_periods_no_clamp(params, today, clock) ==
    IF params.paid_periods.some
    THEN IMin(IMax(params.paid_periods.val, 0), params.term_months)
    ELSE IF ~params.first_payment_date.some THEN 0
    ELSE LET t == IF today.some THEN today.val ELSE clock
             first == params.first_payment_date.val
             months0 == (t.year - first.year) * 12 + (t.month - first.month)
             months == IF t.day < first.day THEN months0 - 1 ELSE months0
         IN  IMax(months, 0)

\* params: [term_months, paid_periods: None or Some(int), first_payment_date:
\* None or Some(date), ...]; today: None or Some(date); clock: what
\* date.today() returns.
compute_paid_periods(params, today, clock) ==
    IF params.paid_periods.some
    THEN IMin(IMax(params.paid_periods.val, 0), params.term_months)
    ELSE IF ~params.first_payment_date.some THEN 0
    ELSE LET t == IF today.some THEN today.val ELSE clock
             first == params.first_payment_date.val
             months0 == (t.year - first.year) * 12 + (t.month - first.month)
             months == IF t.day < first.day THEN months0 - 1 ELSE months0
         IN  IMin(IMax(months, 0), params.term_months)

RowSet ==
    [month_index : Int, payment : RatSet, principal : RatSet,
     interest : RatSet, balance : RatSet]

\* The equal-principal loop of build_schedule: the loop variables are the
\* period i, the running balance and the rows appended so far.
EqualPrincipalRows(principal, principal_part, rate, months) ==
    LET loop[i \in Int, balance \in RatSet, rows \in Seq(RowSet)] ==
            IF i > months THEN rows
            ELSE LET interest == RMul(balance, rate)
                     principal_payment == RMin(principal_part, balance)
                     payment == RAdd(principal_payment, interest)
                 IN  loop[i + 1, RSub(balance, principal_payment),
                          Append(rows, ScheduleRow(i, payment, principal_payment, interest,
                                                   RSub(balance, principal_payment)))]
    IN  loop[1, principal, <<>>]

\* The equal-payment loop of build_schedule.
AnnuityRows(principal, payment, rate, months) ==
    LET loop[i \in Int, balance \in RatSet, rows \in Seq(RowSet)] ==
            IF i > months THEN rows
            ELSE LET interest == RMul(balance, rate)
                     principal_payment == RMin(RSub(payment, interest), balance)
                     payment_effective == RAdd(principal_payment, interest)
                 IN  loop[i + 1, RSub(balance, principal_payment),
                          Append(rows, ScheduleRow(i, payment_effective, principal_payment,
                                                   interest, RSub(balance, principal_payment)))]
    IN  loop[1, principal, <<>>]

\* build_schedule rejecting only a negative principal.
build_schedule_accepts_zero(principal, rate, months, method) ==
    IF months <= 0 \/ RLt(principal, Zero) THEN <<>>
    ELSE IF method = METHOD_EQUAL_PRINCIPAL
         THEN EqualPrincipalRows(principal, RDiv(principal, R(months)), rate, months)
         ELSE AnnuityRows(principal, annuity_payment(principal, rate, months), rate, months)

\* build_schedule taking the annuity branch whatever the method.
build_schedule_annuity_only(principal, rate, months, method) ==
    IF months <= 0 \/ RLe(principal, Zero) THEN <<>>
    ELSE AnnuityRows(principal, annuity_payment(principal, rate, months), rate, months)

build_schedule(principal, rate, months, method) ==
    IF months <= 0 \/ RLe(principal, Zero) THEN <<>>
    ELSE IF method = METHOD_EQUAL_PRINCIPAL
         THEN EqualPrincipalRows(principal, RDiv(principal, R(months)), rate, months)
         ELSE AnnuityRows(principal, annuity_payment(principal, rate, months), rate, months)

\* The loop of build_fixed_payment_schedule going on after the balance is
\* paid off.
FixedPaymentRows_no_balance_break(principal, rate, payment, max_months) ==
    LET loop[i \in Int, balance \in RatSet, rows \in Seq(RowSet)] ==
            IF i > max_months THEN rows
            ELSE LET interest == RMul(balance, rate)
                     principal_payment0 == RSub(payment, interest)
                     principal_payment == RMin(principal_payment0, balance)
                     payment_effective == RAdd(principal_payment, interest)
                     balance2 == RSub(balance, principal_payment)
                     rows2 == Append(rows, ScheduleRow(i, payment_effective, principal_payment,
                                                       interest, balance2))
                 IN  IF RLe(principal_payment0, Zero) THEN rows
                     ELSE loop[i + 1, balance2, rows2]
    IN  loop[1, principal, <<>>]

\* The loop of build_fixed_payment_schedule appending the row of a period
\* whose interest the payment does not cover, and stopping after it.
FixedPaymentRows_uncovered_row(principal, rate, payment, max_months) ==
    LET loop[i \in Int, balance \in RatSet, rows \in Seq(RowSet)] ==
            IF i > max_months THEN rows
            ELSE LET interest == RMul(balance, rate)
                     principal_payment0 == RSub(payment, interest)
                     principal_payment == RMin(principal_payment0, balance)
                     payment_effective == RAdd(principal_payment, interest)
                     balance2 == RSub(balance, principal_payment)
                     rows2 == Append(rows, ScheduleRow(i, payment_effective, principal_payment,
                                                       interest, balance2))
                 IN  IF RLe(principal_payment0, Zero) THEN rows2
                     ELSE IF RLe(balance2, Zero) THEN rows2
                          ELSE loop[i + 1, balance2, rows2]
    IN  loop[1, principal, <<>>]

\* The loop of build_fixed_payment_schedule, with its two break statements.
FixedPaymentRows(principal, rate, payment, max_months) ==
    LET loop[i \in Int, balance \in RatSet, rows \in Seq(RowSet)] ==
            IF i > max_months THEN rows
            ELSE LET interest == RMul(balance, rate)
                     principal_payment0 == RSub(payment, interest)
                     principal_payment == RMin(principal_payment0, balance)
                     payment_effective == RAdd(principal_payment, interest)
                     balance2 == RSub(balance, principal_payment)
                     rows2 == Append(rows, ScheduleRow(i, payment_effective, principal_payment,
                                                       interest, balance2))
                 IN  IF RLe(principal_payment0, Zero) THEN rows
                     ELSE IF RLe(balance2, Zero) THEN rows2
                          ELSE loop[i + 1, balance2, rows2]
    IN  loop[1, principal, <<>>]

\* build_fixed_payment_schedule charging every period's interest on the
\* opening principal instead of the running balance.
build_fixed_payment_schedule_flat_interest(principal, rate, payment, max_months) ==
    IF RLe(principal, Zero) \/ RLe(payment, Zero) THEN <<>>
    ELSE LET loop[i \in Int, balance \in RatSet, rows \in Seq(RowSet)] ==
                 IF i > max_months THEN rows
                 ELSE LET interest == RMul(principal, rate)
                          principal_payment0 == RSub(payment, interest)
                          principal_payment == RMin(principal_payment0, balance)
                          payment_effective == RAdd(principal_payment, interest)
                          balance2 == RSub(balance, principal_payment)
                          rows2 == Append(rows, ScheduleRow(i, payment_effective,
                                                            principal_payment, interest, balance2))
                      IN  IF RLe(principal_payment0, Zero) THEN rows
                          ELSE IF RLe(balance2, Zero) THEN rows2
                               ELSE loop[i + 1, balance2, rows2]
         IN  loop[1, principal, <<>>]

build_fixed_payment_schedule(principal, rate, payment, max_months) ==
    IF RLe(principal, Zero) \/ RLe(payment, Zero) THEN <<>>
    ELSE FixedPaymentRows(principal, rate, payment, max_months)

\* The dict year -> total, as a function on the years that occur.
aggregate_interest_by_year(schedule) ==
    LET year(row) == (row.month_index - 1) \div 12 + 1
        years == {year(schedule[i]) : i \in 1..Len(schedule)}
    IN  [y \in years |->
            SumField(SelectSeq(schedule, LAMBDA row : year(row) = y), "interest")]

CriticalPoint(month_index, reason) ==
    [month_index |-> Some(month_index), reason |-> Some(reason)]
NoCriticalPoint == [month_index |-> None, reason |-> None]

\* suffix[i] = the sum of field f over rows i..Len(schedule), for i in
\* 1..Len(schedule)+1, filled from the last row backwards.
SuffixSums(schedule, f) ==
    LET loop[i \in Int, suffix \in Seq(RatSet)] ==
            IF i < 1 THEN suffix
            ELSE loop[i - 1, <<RAdd(suffix[1], schedule[i][f])>> \o suffix]
    IN  loop[Len(schedule), <<Zero>>]

\* find_critical_point comparing interest <= principal.
find_critical_point_le(schedule) ==
    IF schedule = <<>> THEN NoCriticalPoint
    ELSE LET suffix_interest == SuffixSums(schedule, "interest")
             suffix_payment == SuffixSums(schedule, "payment")
             scan[i \in Int] ==
                 IF i > Len(schedule) THEN NoCriticalPoint
                 ELSE LET row == schedule[i]
                          remaining_ratio ==
                              IF suffix_payment[i] # Zero
                              THEN RDiv(suffix_interest[i], suffix_payment[i])
                              ELSE Zero
                      IN  IF RLe(row.interest, row.principal)
                          THEN CriticalPoint(row.month_index, "monthly_interest_below_principal")
                          ELSE IF RLt(remaining_ratio, Rat(10, 100))
                               THEN CriticalPoint(row.month_index,
                                                  "remaining_interest_below_10_percent")
                               ELSE scan[i + 1]
         IN  scan[1]

find_critical_point(schedule) ==
    IF schedule = <<>> THEN NoCriticalPoint
    ELSE LET suffix_interest == SuffixSums(schedule, "interest")
             suffix_payment == SuffixSums(schedule, "payment")
             scan[i \in Int] ==
                 IF i > Len(schedule) THEN NoCriticalPoint
                 ELSE LET row == schedule[i]
                          remaining_ratio ==
                              IF suffix_payment[i] # Zero
                              THEN RDiv(suffix_interest[i], suffix_payment[i])
                              ELSE Zero
                      IN  IF RLt(row.interest, row.principal)
                          THEN CriticalPoint(row.month_index, "monthly_interest_below_principal")
                          ELSE IF RLt(remaining_ratio, Rat(10, 100))
                               THEN CriticalPoint(row.month_index,
                                                  "remaining_interest_below_10_percent")
                               ELSE scan[i + 1]
         IN  scan[1]

\* The all-zero SimulationResult simulate returns on its two early exits.
ZeroResult(paid_periods) ==
    [paid_periods |-> paid_periods, remaining_months |-> 0, remaining_principal |-> Zero,
     original_monthly_payment |-> Zero, reduced_monthly_payment |-> Zero,
     shorten_months |-> 0, base_remaining_interest |-> Zero,
     reduced_remaining_interest |-> Zero, shorten_remaining_interest |-> Zero,
     savings_reduce |-> Zero, savings_shorten |-> Zero, base_schedule |-> <<>>,
     reduced_schedule |-> <<>>, shorten_schedule |-> <<>>,
     interest_by_year |-> aggregate_interest_by_year(<<>>),
     critical_month_index |-> None, critical_reason |-> None]

\* simulate past its degenerate-input exit.  The method is normalised; then
\* the locals are bound in the order the code assigns them, each group by a
\* function of the values computed before it: `remaining` is lines 280-311,
\* `scenarios` lines 313-325 and `totals` lines 327-358.
simulate_valid(params, prepayment, clock) ==
    LET method == normalize_method(params.method) IN
    IF method.raised THEN method
    ELSE
    LET totals[paid_periods \in Int, base_remaining \in Seq(RowSet),
               remaining_principal \in RatSet, original_monthly_payment \in RatSet,
               reduced_schedule \in Seq(RowSet), shorten_schedule \in Seq(RowSet),
               base_remaining_interest \in RatSet, reduced_remaining_interest \in RatSet,
               shorten_remaining_interest \in RatSet] ==
            LET reduced_monthly_payment ==
                    IF reduced_schedule # <<>> THEN reduced_schedule[1].payment ELSE Zero
                critical == find_critical_point(base_remaining)
            IN  Ok([paid_periods |-> paid_periods,
                    remaining_months |-> Len(base_remaining),
                    remaining_principal |-> remaining_principal,
                    original_monthly_payment |-> original_monthly_payment,
                    reduced_monthly_payment |-> reduced_monthly_payment,
                    shorten_months |-> Len(shorten_schedule),
                    base_remaining_interest |-> base_remaining_interest,
                    reduced_remaining_interest |-> reduced_remaining_interest,
                    shorten_remaining_interest |-> shorten_remaining_interest,
                    savings_reduce |->
                        RSub(base_remaining_interest, reduced_remaining_interest),
                    savings_shorten |->
                        RSub(base_remaining_interest, shorten_remaining_interest),
                    base_schedule |-> base_remaining,
                    reduced_schedule |-> reduced_schedule,
                    shorten_schedule |-> shorten_schedule,
                    interest_by_year |-> aggregate_interest_by_year(base_remaining),
                    critical_month_index |-> critical.month_index,
                    critical_reason |-> critical.reason])
        sums[paid_periods \in Int, base_remaining \in Seq(RowSet),
             remaining_principal \in RatSet, original_monthly_payment \in RatSet,
             reduced_schedule \in Seq(RowSet), shorten_schedule \in Seq(RowSet)] ==
            totals[paid_periods, base_remaining, remaining_principal,
                   original_monthly_payment, reduced_schedule, shorten_schedule,
                   SumField(base_remaining, "interest"),
                   SumField(reduced_schedule, "interest"),
                   SumField(shorten_schedule, "interest")]
        scenarios[m \in STRING, rate \in RatSet, paid_periods \in Int,
                  base_remaining \in Seq(RowSet), remaining_principal \in RatSet,
                  original_monthly_payment \in RatSet, new_principal \in RatSet] ==
            sums[paid_periods, base_remaining, remaining_principal, original_monthly_payment,
                 build_schedule(new_principal, rate, Len(base_remaining), m),
                 build_fixed_payment_schedule(new_principal, rate, original_monthly_payment,
                                              IMax(Len(base_remaining), 1) * 2)]
        remaining[m \in STRING, rate \in RatSet, paid_periods \in Int,
                  base_remaining \in Seq(RowSet), remaining_principal \in RatSet] ==
            LET remaining_months == Len(base_remaining)
                original_monthly_payment ==
                    IF base_remaining # <<>> THEN base_remaining[1].payment ELSE Zero
                prepay_amount == RMin(prepayment.amount, remaining_principal)
                new_principal == RMax(RSub(remaining_principal, prepay_amount), Zero)
            IN  IF remaining_months = 0 \/ RLe(remaining_principal, Zero)
                THEN Ok(ZeroResult(paid_periods))
                ELSE scenarios[m, rate, paid_periods, base_remaining, remaining_principal,
                               original_monthly_payment, new_principal]
        base[m \in STRING, rate \in RatSet, paid_periods \in Int,
             base_schedule_full \in Seq(RowSet)] ==
            remaining[m, rate, paid_periods,
                      SubSeq(base_schedule_full, paid_periods + 1, Len(base_schedule_full)),
                      IF paid_periods <= 0 THEN params.principal
                      ELSE base_schedule_full[paid_periods].balance]
        start[m \in STRING, rate \in RatSet, principal \in RatSet, term_months \in Int] ==
            base[m, rate, compute_paid_periods(params, None, clock),
                 build_schedule(principal, rate, term_months, m)]
    IN  start[method.value, monthly_rate(params.annual_rate), params.principal,
              params.term_months]

\* simulate normalising the method before its degenerate-input exit.
simulate_method_first(params, prepayment, clock) ==
    IF normalize_method(params.method).raised THEN Raise("ValueError")
    ELSE IF RLe(params.principal, Zero) \/ params.term_months <= 0
         THEN Ok(ZeroResult(0))
         ELSE simulate_valid(params, prepayment, clock)

\* simulate building the reduce-payment schedule one period short of the
\* remaining term.
simulate_reduced_one_short(params, prepayment, clock) ==
    IF RLe(params.principal, Zero) \/ params.term_months <= 0
    THEN Ok(ZeroResult(0))
    ELSE CHOOSE out \in
             {IF r.raised THEN r
              ELSE Ok([r.value EXCEPT !.reduced_schedule = SubSeq(@, 1, Len(@) - 1)]) :
                  r \in {simulate_valid(params, prepayment, clock)}} : TRUE

\* params: LoanParams; prepayment: Prepayment; clock: what date.today()
\* returns.  The result is Ok(SimulationResult) or the ValueError raised.
simulate(params, prepayment, clock) ==
    IF RLe(params.principal, Zero) \/ params.term_months <= 0
    THEN Ok(ZeroResult(0))
    ELSE simulate_valid(params, prepayment, clock)

\* simulate_recurring_extra and simulate_annual_recurring_extra are imported
\* by api.py from calculator.py but their definitions are not in the source
\* at hand; this is their contract as the specification gives it.  The
\* extra is paid in the first period after the start offset and in every
\* period, or every 12th, from there.  The base schedule is the part of the full
\* schedule that is still to be paid; the parallel schedule pays, each
\* period, the base schedule's payment of that period plus the extra, the
\* extra going to principal, and ends in the period the balance reaches 0.
RecurringRows(base_remaining, remaining_principal, rate, recurring_extra, start_offset, every) ==
    LET loop[i \in Int, balance \in RatSet, rows \in Seq(RowSet)] ==
            IF i > Len(base_remaining) \/ RLe(balance, Zero) THEN rows
            ELSE LET interest == RMul(balance, rate)
                     extra == IF i > start_offset /\ (i - start_offset - 1) % every = 0
                              THEN recurring_extra ELSE Zero
                     principal_payment ==
                         RMin(RAdd(RSub(base_remaining[i].payment, interest), extra),
                              balance)
                 IN  loop[i + 1, RSub(balance, principal_payment),
                          Append(rows, ScheduleRow(i, RAdd(principal_payment, interest),
                                                   principal_payment, interest,
                                                   RSub(balance, principal_payment)))]
    IN  loop[1, remaining_principal, <<>>]

RecurringSimulation(params, recurring_extra, as_of_date, start_offset, every, clock) ==
    LET method == normalize_method(params.method)
        result[base_remaining \in Seq(RowSet), rows \in Seq(RowSet)] ==
            [months_with_recurring |-> Len(rows),
             total_interest_with_recurring |-> SumField(rows, "interest"),
             base_total_interest |-> SumField(base_remaining, "interest"),
             interest_savings |-> RSub(SumField(base_remaining, "interest"),
                                       SumField(rows, "interest")),
             base_remaining_interest |-> SumField(base_remaining, "interest"),
             total_payment_with_recurring |-> SumField(rows, "payment"),
             base_monthly_payment |->
                 IF base_remaining # <<>> THEN base_remaining[1].payment ELSE Zero,
             recurring_extra_payment |-> recurring_extra]
        remaining[full \in Seq(RowSet), paid_periods \in Int, rate \in RatSet] ==
            LET base_remaining == SubSeq(full, paid_periods + 1, Len(full))
                remaining_principal == IF paid_periods <= 0 THEN params.principal
                                       ELSE full[paid_periods].balance
            IN  result[base_remaining,
                       RecurringRows(base_remaining, remaining_principal, rate,
                                     recurring_extra, start_offset, every)]
    IN  IF method.raised THEN method
        ELSE Ok(remaining[build_schedule(params.principal, monthly_rate(params.annual_rate),
                                         params.term_months, method.value),
                          compute_paid_periods(params, as_of_date, clock),
                          monthly_rate(params.annual_rate)])

\* The monthly simulation: the extra in every period after the offset.
simulate_recurring_extra(params, recurring_extra, as_of_date, start_offset_months, clock) ==
    RecurringSimulation(params, recurring_extra, as_of_date, start_offset_months, 1, clock)

\* The annual simulation: the extra in the first period after the offset
\* and in every 12th period from there.
simulate_annual_recurring_extra(params, annual_extra, as_of_date, months_until_first_extra, clock) ==
    RecurringSimulation(params, annual_extra, as_of_date, months_until_first_extra, 12, clock)

----------------------------------------------------------------------------
(* report.py *)

\* The parameters of generate_pdf: all keyword-only, none with a default.
generate_pdf_parameters ==
    {"result", "prepayment", "output_dir", "original_principal",
     "original_annual_rate", "original_term_months", "original_method"}

\* kwargs: the keyword arguments of the call, a record.  Python raises
\* TypeError for a missing or an unexpected keyword; otherwise the document is
\* written to a file and the path of that file, a str, is returned.
generate_pdf(kwargs) ==
    IF DOMAIN kwargs # generate_pdf_parameters THEN Raise("TypeError")
    ELSE Ok([type |-> "str", holds |-> "pdf_path"])

----------------------------------------------------------------------------
(* api.py *)

\* Defaults of the limits read from the environment.
MAX_TERM_MONTHS == 600
MAX_PRINCIPAL == 30000000
MAX_ANNUAL_RATE == 30
MAX_PREPAY_RATIO == 1
MAX_SCHEDULE_ROWS == 2000
\* 6 * 1024 * 1024
MAX_EXPORT_BYTES == 6291456
ALLOWED_METHODS == {S_equal_payment, S_equal_principal}
\* "60/minute" and "15/minute": the number of hits a window admits.
DEFAULT_RATE_LIMIT == 60
EXPORT_RATE_LIMIT == 15

\* A logged call: the function called and what it was passed.
Call(fn, arg) == [fn |-> fn, arg |-> arg]

\* What a handler did: the response it produced or that its exception was
\* turned into, and the calls it made.
Handled(response, log) == [response |-> response, calls |-> log]

JSONResponse(status_code, content) == [status |-> status_code, content |-> content]

\* The limiter's key of a request.  The x-forwarded-for header is held as
\* its comma-separated entries; an empty header has one empty entry.
_client_ip(request) ==
    LET forwarded == request.headers.x_forwarded_for
        real_ip == request.headers.x_real_ip
    IN  IF forwarded.some /\ strip(forwarded.val[1]) # <<>>
        THEN strip(forwarded.val[1])
        ELSE IF real_ip.some /\ real_ip.val # <<>> THEN real_ip.val
        ELSE request.client

\* require_api_key letting a request without the header through.
require_api_key_missing_ok(api_key, request) ==
    LET provided == request.headers.x_api_key IN
    /\ api_key.some /\ api_key.val # ""
    /\ provided.some /\ provided.val # "" /\ provided.val # api_key.val

\* require_api_key: TRUE when it raises HTTPException(401).  api_key is the
\* configured API_KEY.
require_api_key(api_key, request) ==
    LET provided == request.headers.x_api_key IN
    /\ api_key.some /\ api_key.val # ""
    /\ ~provided.some \/ provided.val = "" \/ provided.val # api_key.val

\* _rate_limit_handler
_rate_limit_handler == JSONResponse(429, [detail |-> "Rate limit exceeded"])

health == Handled(JSONResponse(200, [status |-> "ok"]), <<>>)

\* f"{x:.2f}": x rounded to hundredths, ties to even, as a count of hundredths.
Format2f(x) ==
    LET q == (x[1] * 100) \div x[2]
        r == (x[1] * 100) % x[2]
    IN  IF 2 * r > x[2] \/ (2 * r = x[2] /\ q % 2 = 1) THEN q + 1 ELSE q

\* LoanRequest without the check of prepay_amount against the principal.
LoanRequest_no_ratio(json) ==
    LET paid_periods == IF json.paid_periods.given THEN json.paid_periods.value ELSE Some(0)
    IN  IF \/ ~RLt(Zero, json.principal) \/ RLt(R(MAX_PRINCIPAL), json.principal)
           \/ RLt(json.annual_rate, Zero) \/ RLt(R(MAX_ANNUAL_RATE), json.annual_rate)
           \/ json.term_months <= 0 \/ json.term_months > MAX_TERM_MONTHS
           \/ json.method \notin ALLOWED_METHODS
           \/ (paid_periods.some /\ paid_periods.val < 0)
           \/ RLt(json.prepay_amount, Zero)
           \/ (paid_periods.some /\ paid_periods.val # 0
                 /\ paid_periods.val > json.term_months)
        THEN Raise("ValidationError")
        ELSE Ok([principal |-> json.principal, annual_rate |-> json.annual_rate,
                 term_months |-> json.term_months, method |-> json.method,
                 paid_periods |-> paid_periods,
                 first_payment_date |-> json.first_payment_date,
                 prepay_amount |-> json.prepay_amount,
                 invest_annual_rate |-> None])

\* The LoanRequest model applied to a JSON body: Ok(the parsed request) or the
\* validation error.  json.paid_periods is [given, value]: the key may be
\* left out, and then takes the field's default 0.
LoanRequest(json) ==
    LET paid_periods == IF json.paid_periods.given THEN json.paid_periods.value ELSE Some(0)
    IN  IF \/ ~RLt(Zero, json.principal) \/ RLt(R(MAX_PRINCIPAL), json.principal)
           \/ RLt(json.annual_rate, Zero) \/ RLt(R(MAX_ANNUAL_RATE), json.annual_rate)
           \/ json.term_months <= 0 \/ json.term_months > MAX_TERM_MONTHS
           \/ json.method \notin ALLOWED_METHODS
           \/ (paid_periods.some /\ paid_periods.val < 0)
           \/ RLt(json.prepay_amount, Zero)
           \/ (paid_periods.some /\ paid_periods.val # 0
                 /\ paid_periods.val > json.term_months)
           \/ RLt(RMul(json.principal, R(MAX_PREPAY_RATIO)), json.prepay_amount)
        THEN Raise("ValidationError")
        ELSE Ok([principal |-> json.principal, annual_rate |-> json.annual_rate,
                 term_months |-> json.term_months, method |-> json.method,
                 paid_periods |-> paid_periods,
                 first_payment_date |-> json.first_payment_date,
                 prepay_amount |-> json.prepay_amount,
                 invest_annual_rate |-> None])

\* A response: status, the entries of the zip body (none unless 200) and the
\* headers the handler sets.
HTTPError(status) == [status |-> status, entries |-> <<>>, headers |-> <<>>]

\* _ensure_row_limit with the comparison turned round.
_ensure_row_limit_inverted(rows, max_schedule_rows) == rows < max_schedule_rows

\* _ensure_row_limit against the configured ceiling: TRUE when it raises.
_ensure_row_limit(rows, max_schedule_rows) == rows > max_schedule_rows

\* _ensure_export_size: TRUE when it raises.
_ensure_export_size(size_bytes) == size_bytes > MAX_EXPORT_BYTES

\* calendar.monthrange(year, month)[1]
DaysInMonth(year, month) ==
    IF month = 2
    THEN IF year % 4 = 0 /\ (year % 100 # 0 \/ year % 400 = 0) THEN 29 ELSE 28
    ELSE IF month \in {4, 6, 9, 11} THEN 30 ELSE 31

\* a < b for two dates.
DateLt(a, b) ==
    \/ a.year < b.year
    \/ a.year = b.year /\ a.month < b.month
    \/ a.year = b.year /\ a.month = b.month /\ a.day < b.day

\* _next_annual_date keeping the day it clamped for the as-of year when it
\* moves to the following year.
_next_annual_date_stale_day(as_of, month, day) ==
    LET day1 == IMin(day, DaysInMonth(as_of.year, month))
        candidate == Date(as_of.year, month, day1)
    IN  IF DateLt(candidate, as_of)
        THEN Date(as_of.year + 1, month, day1)
        ELSE candidate

_next_annual_date(as_of, month, day) ==
    LET day1 == IMin(day, DaysInMonth(as_of.year, month))
        candidate == Date(as_of.year, month, day1)
    IN  IF DateLt(candidate, as_of)
        THEN Date(as_of.year + 1, month,
                  IMin(day, DaysInMonth(as_of.year + 1, month)))
        ELSE candidate

_months_between(start, end) ==
    IF ~DateLt(start, end) THEN 0
    ELSE LET months0 == (end.year - start.year) * 12 + (end.month - start.month)
             months == IF end.day < start.day THEN months0 - 1 ELSE months0
         IN  IMax(months, 0)

\* months >= 0, so Python's floor division and modulo are \div and %.
_add_months(src, months) ==
    LET month0 == src.month - 1 + months
        year == src.year + (month0 \div 12)
        month == (month0 % 12) + 1
    IN  Date(year, month, IMin(src.day, DaysInMonth(year, month)))

\* annual_month and annual_day are optional ints; `not x` is true of None
\* and of 0.
_resolve_first_annual_date(as_of, recurring_start_date, annual_month, annual_day) ==
    LET missing(x) == ~x.some \/ x.val = 0 IN
    IF recurring_start_date.some
    THEN IF ~DateLt(recurring_start_date.val, as_of)
         THEN Ok(recurring_start_date.val)
         ELSE Ok(_next_annual_date(as_of, recurring_start_date.val.month,
                                   recurring_start_date.val.day))
    ELSE IF missing(annual_month) \/ missing(annual_day)
         THEN Raise("ValueError")
         ELSE Ok(_next_annual_date(as_of, annual_month.val, annual_day.val))

\* The LoanParams and the Prepayment a handler builds from a parsed body.
LoanParamsOf(body) ==
    [principal |-> body.principal, annual_rate |-> body.annual_rate,
     term_months |-> body.term_months, method |-> Some(body.method),
     paid_periods |-> body.paid_periods, first_payment_date |-> body.first_payment_date]

PrepaymentOf(body) ==
    [amount |-> body.prepay_amount, invest_annual_rate |-> body.invest_annual_rate]

\* The calls of _ensure_row_limit on the lengths lens, in order, up to and
\* including the first that raises.
RowLimitCalls(lens, max_schedule_rows) ==
    LET over == {i \in 1..Len(lens) : _ensure_row_limit(lens[i], max_schedule_rows)}
        last == IF over = {} THEN Len(lens) ELSE CHOOSE i \in over : \A k \in over : i <= k
    IN  [i \in 1..last |-> Call("_ensure_row_limit", lens[i])]

\* calc_prepayment for a parsed body.
calc_prepayment(body, clock) ==
    CHOOSE handled \in
        {Handled(IF sim.raised THEN JSONResponse(400, [detail |-> sim.error])
                 ELSE JSONResponse(200,
                        [savings_shorten_interest |-> sim.value.savings_shorten,
                         savings_reduce_payment_interest |-> sim.value.savings_reduce]),
                 <<Call("simulate", LoanParamsOf(body))>>) :
            sim \in {simulate(LoanParamsOf(body), PrepaymentOf(body), clock)}} : TRUE

\* Text that goes into a header: the sequence of the code points of its
\* characters.  AsciiChars lists the printable ASCII characters from the
\* space, code point 32, on; the grave accent, code point 96, which no header
\* uses, is held by its name.
AsciiChars ==
    <<" ", "!", "\"", "#", "$", "%", "&", "'", "(", ")", "*", "+", ",", "-", ".", "/",
      "0", "1", "2", "3", "4", "5", "6", "7", "8", "9", ":", ";", "<", "=", ">", "?",
      "@", "A", "B", "C", "D", "E", "F", "G", "H", "I", "J", "K", "L", "M", "N", "O",
      "P", "Q", "R", "S", "T", "U", "V", "W", "X", "Y", "Z", "[", "\\", "]", "^", "_",
      "grave", "a", "b", "c", "d", "e", "f", "g", "h", "i", "j", "k", "l", "m", "n", "o",
      "p", "q", "r", "s", "t", "u", "v", "w", "x", "y", "z", "{", "|", "}", "~">>

Text(chars) ==
    [i \in 1..Len(chars) |-> 31 + CHOOSE k \in 1..Len(AsciiChars) : AsciiChars[k] = chars[i]]

\* str.encode("utf-8") of one character of the Basic Multilingual Plane.
utf8(cp) ==
    IF cp < 128 THEN <<cp>>
    ELSE IF cp < 2048 THEN <<192 + (cp \div 64), 128 + (cp % 64)>>
    ELSE <<224 + (cp \div 4096), 128 + ((cp \div 64) % 64), 128 + (cp % 64)>>

\* urllib.parse.quote with its default safe="/": letters, digits and _.-~/
\* stay, every other character becomes %XX for each byte of its UTF-8 form.
quote(text) ==
    LET hex == Text(<<"0", "1", "2", "3", "4", "5", "6", "7", "8", "9",
                      "A", "B", "C", "D", "E", "F">>)
        safe == {c \in 48..57 \cup 65..90 \cup 97..122 : TRUE}
                \cup {Text(<<c>>)[1] : c \in {"_", ".", "-", "~", "/"}}
        escaped(bytes) ==
            [k \in 1..(3 * Len(bytes)) |->
                IF k % 3 = 1 THEN Text(<<"%">>)[1]
                ELSE IF k % 3 = 2 THEN hex[(bytes[(k + 2) \div 3] \div 16) + 1]
                ELSE hex[(bytes[(k + 2) \div 3] % 16) + 1]]
        q[i \in 0..Len(text)] ==
            IF i = 0 THEN <<>>
            ELSE q[i - 1] \o (IF text[i] \in safe THEN <<text[i]>>
                              ELSE escaped(utf8(text[i])))
    IN  q[Len(text)]

\* The Content-Disposition value of export_zip (line 411): the file name is
\* eight Chinese characters followed by ".zip".
export_zip_disposition ==
    Text(<<"a", "t", "t", "a", "c", "h", "m", "e", "n", "t", ";", " ",
           "f", "i", "l", "e", "n", "a", "m", "e", "=">>)
    \o <<25552, 21069, 36824, 27454, 20998, 26512, 25253, 21578>>
    \o Text(<<".", "z", "i", "p">>)

\* The Content-Disposition value of export_combined_schedule, lines 475-476:
\* an ASCII file name, then the extended file name parameter with the quoted
\* true name, six Chinese characters followed by ".zip".
export_combined_disposition ==
    Text(<<"a", "t", "t", "a", "c", "h", "m", "e", "n", "t", ";", " ",
           "f", "i", "l", "e", "n", "a", "m", "e", "=",
           "l", "o", "a", "n", "_", "s", "c", "h", "e", "d", "u", "l", "e", "s",
           ".", "z", "i", "p", ";", " ">>)
    \o Text(<<"f", "i", "l", "e", "n", "a", "m", "e", "*", "=",
              "U", "T", "F", "-", "8", "'", "'">>)
    \o quote(<<25151, 36151, 26376, 20379, 26126, 32454>> \o Text(<<".", "z", "i", "p">>))

\* Lines 383-415 of the handler: what it does once simulate has returned
\* `result`.  The exception generate_pdf raises is not an HTTPException; it
\* leaves the handler and is answered 500.
export_zip_response(body, prepay, result, max_schedule_rows, zip_size) ==
    LET row_calls == RowLimitCalls(<<Len(result.base_schedule), Len(result.reduced_schedule),
                                     Len(result.shorten_schedule)>>, max_schedule_rows)
        kwargs == [result |-> result, prepayment |-> prepay,
                   original_principal |-> body.principal,
                   original_annual_rate |-> body.annual_rate,
                   original_term_months |-> body.term_months,
                   original_method |-> body.method]
        pdf_calls == Append(row_calls, Call("generate_pdf", DOMAIN kwargs))
        zip_calls == pdf_calls \o <<Call("zipfile.ZipFile", "w"),
                                    Call("_schedule_to_xlsx", "base_schedule"),
                                    Call("_schedule_to_xlsx", "reduced_schedule"),
                                    Call("_schedule_to_xlsx", "shorten_schedule"),
                                    Call("_ensure_export_size", zip_size)>>
    IN  IF \/ _ensure_row_limit(Len(result.base_schedule), max_schedule_rows)
           \/ _ensure_row_limit(Len(result.reduced_schedule), max_schedule_rows)
           \/ _ensure_row_limit(Len(result.shorten_schedule), max_schedule_rows)
        THEN Handled(HTTPError(413), row_calls)
        ELSE IF generate_pdf(kwargs).raised THEN Handled(HTTPError(500), pdf_calls)
        ELSE IF _ensure_export_size(zip_size) THEN Handled(HTTPError(413), zip_calls)
        ELSE Handled(
          [status |-> 200,
           entries |-> <<[file |-> "base_schedule_xlsx", content |-> result.base_schedule],
                         [file |-> "reduced_schedule_xlsx", content |-> result.reduced_schedule],
                         [file |-> "shorten_schedule_xlsx", content |-> result.shorten_schedule],
                         [file |-> "analysis_report_pdf",
                          content |-> generate_pdf(kwargs).value]>>,
           headers |-> [h \in {"Content-Disposition", "X-Savings-Reduce", "X-Savings-Shorten"} |->
                           CASE h = "Content-Disposition" -> export_zip_disposition
                             [] h = "X-Savings-Reduce" -> Format2f(result.savings_reduce)
                             [] h = "X-Savings-Shorten" -> Format2f(result.savings_shorten)]],
          zip_calls)

\* The handler of POST /v1/mortgages/prepayment:export-zip for a parsed body.
\* max_schedule_rows is the configured MAX_SCHEDULE_ROWS; zip_size is the
\* length the deflated archive comes to.  simulate is called once and its
\* outcome `sim` decides the rest.
export_zip(body, clock, max_schedule_rows, zip_size) ==
    CHOOSE handled \in
        {IF sim.raised THEN Handled(HTTPError(400), <<Call("simulate", LoanParamsOf(body))>>)
         ELSE LET rest == export_zip_response(body, PrepaymentOf(body), sim.value,
                                              max_schedule_rows, zip_size)
              IN  Handled(rest.response,
                          <<Call("simulate", LoanParamsOf(body))>> \o rest.calls) :
            sim \in {simulate(LoanParamsOf(body), PrepaymentOf(body), clock)}} : TRUE

\* The CombinedLoanRequest model applied to a JSON body: the field ranges,
\* the method validator, then _validate_pairs.
CombinedLoanRequest(json) ==
    IF \/ RLt(json.fund_principal, Zero) \/ RLt(R(MAX_PRINCIPAL), json.fund_principal)
       \/ RLt(json.fund_annual_rate, Zero) \/ RLt(R(MAX_ANNUAL_RATE), json.fund_annual_rate)
       \/ RLt(json.commercial_principal, Zero)
       \/ RLt(R(MAX_PRINCIPAL), json.commercial_principal)
       \/ RLt(json.commercial_annual_rate, Zero)
       \/ RLt(R(MAX_ANNUAL_RATE), json.commercial_annual_rate)
       \/ json.term_months <= 0 \/ json.term_months > MAX_TERM_MONTHS
       \/ json.method \notin ALLOWED_METHODS
       \/ (RLe(json.fund_principal, Zero) /\ RLe(json.commercial_principal, Zero))
       \/ (RLt(Zero, json.fund_principal) /\ RLe(json.fund_annual_rate, Zero))
       \/ (RLt(Zero, json.commercial_principal) /\ RLe(json.commercial_annual_rate, Zero))
    THEN Raise("ValidationError")
    ELSE Ok(json)

\* The loop of export_combined_schedule pairing row idx of one leg with
\* row idx of the other and stopping at the end of the shorter leg.
CombinedRows_shorter_leg(fund_schedule, commercial_schedule) ==
    LET max_len == IMin(Len(fund_schedule), Len(commercial_schedule))
    IN  [idx \in 1..max_len |->
            ScheduleRow(idx,
                        RAdd(fund_schedule[idx].payment, commercial_schedule[idx].payment),
                        RAdd(fund_schedule[idx].principal, commercial_schedule[idx].principal),
                        RAdd(fund_schedule[idx].interest, commercial_schedule[idx].interest),
                        RAdd(fund_schedule[idx].balance, commercial_schedule[idx].balance))]

\* The loop of export_combined_schedule (lines 447-459): the list `combined`.
\* Python's idx runs from 0; here idx is the month index idx + 1.
CombinedRows(fund_schedule, commercial_schedule) ==
    LET max_len == IMax(Len(fund_schedule), Len(commercial_schedule))
        leg(schedule, idx) ==
            IF idx <= Len(schedule) THEN schedule[idx]
            ELSE ScheduleRow(idx, Zero, Zero, Zero, Zero)
    IN  [idx \in 1..max_len |->
            ScheduleRow(idx,
                RAdd(leg(fund_schedule, idx).payment, leg(commercial_schedule, idx).payment),
                RAdd(leg(fund_schedule, idx).principal, leg(commercial_schedule, idx).principal),
                RAdd(leg(fund_schedule, idx).interest, leg(commercial_schedule, idx).interest),
                RAdd(leg(fund_schedule, idx).balance, leg(commercial_schedule, idx).balance))]

\* Lines 445-479 of export_combined_schedule, once both legs are built.  The
\* archive holds the workbook _combined_schedule_to_xlsx writes from the
\* three lists it is handed; rows is the configured MAX_SCHEDULE_ROWS.
export_combined_response(fund_schedule, commercial_schedule, combined, log, rows, zip_size) ==
    LET max_len == IMax(Len(fund_schedule), Len(commercial_schedule))
        row_calls == Append(log, Call("_ensure_row_limit", max_len))
        zip_calls == row_calls \o <<Call("_combined_schedule_to_xlsx", Len(combined)),
                                    Call("zipfile.ZipFile", "w"),
                                    Call("_ensure_export_size", zip_size)>>
    IN  IF _ensure_row_limit(max_len, rows)
        THEN Handled(HTTPError(413), row_calls)
        ELSE IF _ensure_export_size(zip_size) THEN Handled(HTTPError(413), zip_calls)
        ELSE Handled(
          [status |-> 200,
           entries |-> <<[file |-> "combined_xlsx",
                          content |-> [combined |-> combined,
                                       commercial_schedule |-> commercial_schedule,
                                       fund_schedule |-> fund_schedule]]>>,
           headers |-> [h \in {"Content-Disposition", "X-Total-Interest"} |->
                           CASE h = "Content-Disposition" -> export_combined_disposition
                             [] h = "X-Total-Interest" ->
                                    Format2f(SumField(combined, "interest"))]],
          zip_calls)

\* The handler of POST /v1/mortgages/combined:export-xlsx for a parsed body.
export_combined_schedule(body, max_schedule_rows, zip_size) ==
    LET include_fund == RLt(Zero, body.fund_principal)
        include_commercial == RLt(Zero, body.commercial_principal)
        method == normalize_method(Some(body.method))
        fund_rate == monthly_rate(body.fund_annual_rate)
        commercial_rate == monthly_rate(body.commercial_annual_rate)
        legs(m) ==
            [fund |-> IF include_fund
                      THEN build_schedule(body.fund_principal, fund_rate, body.term_months, m)
                      ELSE <<>>,
             commercial |-> IF include_commercial
                            THEN build_schedule(body.commercial_principal, commercial_rate,
                                                body.term_months, m)
                            ELSE <<>>]
        log == <<Call("normalize_method", body.method)>>
               \o (IF include_fund THEN <<Call("build_schedule", body.fund_principal)>>
                   ELSE <<>>)
               \o (IF include_commercial
                   THEN <<Call("build_schedule", body.commercial_principal)>> ELSE <<>>)
    IN  IF method.raised
        THEN Handled(HTTPError(400), <<Call("normalize_method", body.method)>>)
        ELSE CHOOSE handled \in
                {export_combined_response(l.fund, l.commercial,
                                          CombinedRows(l.fund, l.commercial), log,
                                          max_schedule_rows, zip_size) :
                    l \in {legs(method.value)}} : TRUE

\* The RecurringInvestmentRequest model applied to a JSON body: the field
\* ranges, the method validator, then _validate_ranges.
RecurringInvestmentRequest(json) ==
    LET paid_periods == IF json.paid_periods.given THEN json.paid_periods.value ELSE Some(0)
    IN  IF \/ ~RLt(Zero, json.principal) \/ RLt(R(MAX_PRINCIPAL), json.principal)
           \/ RLt(json.annual_rate, Zero) \/ RLt(R(MAX_ANNUAL_RATE), json.annual_rate)
           \/ json.term_months <= 0 \/ json.term_months > MAX_TERM_MONTHS
           \/ json.method \notin ALLOWED_METHODS
           \/ (paid_periods.some /\ paid_periods.val < 0)
           \/ ~RLt(Zero, json.recurring_extra_amount)
           \/ (paid_periods.some /\ paid_periods.val # 0
                 /\ paid_periods.val > json.term_months)
           \/ RLt(RMul(json.principal, R(MAX_PREPAY_RATIO)), json.recurring_extra_amount)
        THEN Raise("ValidationError")
        ELSE Ok([principal |-> json.principal, annual_rate |-> json.annual_rate,
                 term_months |-> json.term_months, method |-> json.method,
                 paid_periods |-> paid_periods,
                 first_payment_date |-> json.first_payment_date,
                 recurring_extra_amount |-> json.recurring_extra_amount])

\* calc_recurring_extra reporting the base interest as the saving.
calc_recurring_extra_base_interest(body, clock) ==
    CHOOSE handled \in
        {Handled(IF sim.raised THEN JSONResponse(400, [detail |-> sim.error])
                 ELSE JSONResponse(200,
                        [months_to_payoff |-> sim.value.months_with_recurring,
                         total_interest_with_recurring |->
                             sim.value.total_interest_with_recurring,
                         base_total_interest |-> sim.value.base_total_interest,
                         interest_savings_vs_base |-> sim.value.base_remaining_interest,
                         base_remaining_interest |-> sim.value.base_remaining_interest,
                         total_payment_with_recurring |->
                             sim.value.total_payment_with_recurring,
                         base_monthly_payment |-> sim.value.base_monthly_payment,
                         recurring_extra_amount |-> sim.value.recurring_extra_payment]),
                 <<Call("simulate_recurring_extra", LoanParamsOf(body))>>) :
            sim \in {simulate_recurring_extra(LoanParamsOf(body), body.recurring_extra_amount,
                                              None, 0, clock)}} : TRUE

\* calc_recurring_extra for a parsed body.
calc_recurring_extra(body, clock) ==
    CHOOSE handled \in
        {Handled(IF sim.raised THEN JSONResponse(400, [detail |-> sim.error])
                 ELSE JSONResponse(200,
                        [months_to_payoff |-> sim.value.months_with_recurring,
                         total_interest_with_recurring |->
                             sim.value.total_interest_with_recurring,
                         base_total_interest |-> sim.value.base_total_interest,
                         interest_savings_vs_base |-> sim.value.interest_savings,
                         base_remaining_interest |-> sim.value.base_remaining_interest,
                         total_payment_with_recurring |->
                             sim.value.total_payment_with_recurring,
                         base_monthly_payment |-> sim.value.base_monthly_payment,
                         recurring_extra_amount |-> sim.value.recurring_extra_payment]),
                 <<Call("simulate_recurring_extra", LoanParamsOf(body))>>) :
            sim \in {simulate_recurring_extra(LoanParamsOf(body), body.recurring_extra_amount,
                                              None, 0, clock)}} : TRUE

S_monthly == <<"m", "o", "n", "t", "h", "l", "y">>
S_annual == <<"a", "n", "n", "u", "a", "l">>

\* The field rules the three dated recurring request models share: the
\* loan's ranges, the method validator, paid_periods >= 0 when given, an
\* extra amount > 0 within the ratio, paid_periods within the term, and
\* the as-of date not before the first payment date.  TRUE when one fails.
DatedRecurringInvalid(json, extra, as_of) ==
    \/ ~RLt(Zero, json.principal) \/ RLt(R(MAX_PRINCIPAL), json.principal)
    \/ RLt(json.annual_rate, Zero) \/ RLt(R(MAX_ANNUAL_RATE), json.annual_rate)
    \/ json.term_months <= 0 \/ json.term_months > MAX_TERM_MONTHS
    \/ json.method \notin ALLOWED_METHODS
    \/ (json.paid_periods.some /\ json.paid_periods.val < 0)
    \/ ~RLt(Zero, extra)
    \/ (json.paid_periods.some /\ json.paid_periods.val # 0
          /\ json.paid_periods.val > json.term_months)
    \/ RLt(RMul(json.principal, R(MAX_PREPAY_RATIO)), extra)
    \/ (json.first_payment_date.some /\ as_of.some
          /\ DateLt(as_of.val, json.first_payment_date.val))

\* The ScheduledRecurringRequest model applied to a JSON body.  frequency
\* is lowered by its validator; an absent one is "monthly".  annual_month
\* and annual_day have ranges of their own.
ScheduledRecurringRequest(json) ==
    LET frequency == IF json.frequency.some THEN lower(json.frequency.val) ELSE S_monthly
        missing(x) == ~x.some \/ x.val = 0
    IN  IF \/ DatedRecurringInvalid(json, json.recurring_extra_amount, json.as_of_date)
           \/ (json.annual_month.some /\ json.annual_month.val \notin 1..12)
           \/ (json.annual_day.some /\ json.annual_day.val \notin 1..31)
           \/ frequency \notin {S_monthly, S_annual}
           \/ (/\ frequency = S_annual
               /\ ~json.recurring_start_date.some
               /\ (missing(json.annual_month) \/ missing(json.annual_day)))
        THEN Raise("ValidationError")
        ELSE Ok([json EXCEPT !.frequency = frequency])

\* The LumpSumRecurringRequest model applied to a JSON body.
LumpSumRecurringRequest(json) ==
    IF DatedRecurringInvalid(json, json.recurring_extra_amount, json.repayment_date)
    THEN Raise("ValidationError")
    ELSE Ok(json)

\* The AnnualRecurringRequest model applied to a JSON body; its
\* recurring_start_date is required.
AnnualRecurringRequest(json) ==
    IF \/ DatedRecurringInvalid(json, json.annual_extra_amount, json.as_of_date)
       \/ ~json.recurring_start_date.some
    THEN Raise("ValidationError")
    ELSE Ok([json EXCEPT !.recurring_start_date = json.recurring_start_date.val])

\* `a or b or date.today()` for two optional dates.
FirstDate(a, b, clock) == IF a.some THEN a.val ELSE IF b.some THEN b.val ELSE clock

\* The fields every dated recurring response takes from the engine's result,
\* and the payoff date _add_months gives.
RecurringSummary(result, as_of_date, start_offset) ==
    [months_to_payoff |-> result.months_with_recurring,
     payoff_date |-> _add_months(as_of_date, result.months_with_recurring),
     total_interest_with_recurring |-> result.total_interest_with_recurring,
     base_total_interest |-> result.base_total_interest,
     interest_savings_vs_base |-> result.interest_savings,
     base_remaining_interest |-> result.base_remaining_interest,
     total_payment_with_recurring |-> result.total_payment_with_recurring,
     base_monthly_payment |-> result.base_monthly_payment,
     start_offset_months |-> start_offset]

\* What a dated handler does once the engine has answered `sim`: 400 for a
\* ValueError, else the response with the handler's own fields `own`.
RecurringHandled(fn, body, sim, as_of_date, start_offset, own) ==
    Handled(IF sim.raised THEN JSONResponse(400, [detail |-> sim.error])
            ELSE JSONResponse(200, RecurringSummary(sim.value, as_of_date, start_offset) @@ own),
            <<Call(fn, LoanParamsOf(body))>>)

\* calc_scheduled_recurring for a parsed body.
calc_scheduled_recurring(body, clock) ==
    LET as_of_date == FirstDate(body.as_of_date, body.first_payment_date, clock)
        first == _resolve_first_annual_date(as_of_date, body.recurring_start_date,
                                            body.annual_month, body.annual_day)
        annual_offset == _months_between(as_of_date, first.value)
        monthly_offset == IF body.recurring_start_date.some
                          THEN _months_between(as_of_date, body.recurring_start_date.val)
                          ELSE 0
    IN  IF body.frequency = S_annual
        THEN IF first.raised
             THEN Handled(JSONResponse(400, [detail |-> first.error]), <<>>)
             ELSE CHOOSE handled \in
                      {RecurringHandled("simulate_annual_recurring_extra", body, sim, as_of_date,
                                        annual_offset,
                                        [recurring_extra_amount |-> sim.value.recurring_extra_payment,
                                         as_of_date |-> as_of_date,
                                         recurring_start_date |-> body.recurring_start_date,
                                         first_annual_extra_date |-> Some(first.value)]) :
                          sim \in {simulate_annual_recurring_extra(
                                       LoanParamsOf(body), body.recurring_extra_amount,
                                       Some(as_of_date), annual_offset, clock)}} : TRUE
        ELSE CHOOSE handled \in
                 {RecurringHandled("simulate_recurring_extra", body, sim, as_of_date,
                                   monthly_offset,
                                   [recurring_extra_amount |-> sim.value.recurring_extra_payment,
                                    as_of_date |-> as_of_date,
                                    recurring_start_date |-> body.recurring_start_date,
                                    first_annual_extra_date |-> None]) :
                     sim \in {simulate_recurring_extra(
                                  LoanParamsOf(body), body.recurring_extra_amount,
                                  Some(as_of_date), monthly_offset, clock)}} : TRUE

\* calc_lump_sum_recurring for a parsed body.
calc_lump_sum_recurring(body, clock) ==
    LET repayment_date == FirstDate(body.repayment_date, body.first_payment_date, clock)
        start_offset == IF body.recurring_start_date.some
                        THEN _months_between(repayment_date, body.recurring_start_date.val)
                        ELSE 0
    IN  CHOOSE handled \in
            {RecurringHandled("simulate_recurring_extra", body, sim, repayment_date,
                              start_offset,
                              [recurring_extra_amount |-> sim.value.recurring_extra_payment,
                               repayment_date |-> repayment_date,
                               recurring_start_date |-> body.recurring_start_date]) :
                sim \in {simulate_recurring_extra(
                             LoanParamsOf(body), body.recurring_extra_amount,
                             Some(repayment_date), start_offset, clock)}} : TRUE

\* calc_annual_recurring for a parsed body.
calc_annual_recurring(body, clock) ==
    LET as_of_date == FirstDate(body.as_of_date, body.first_payment_date, clock)
        first == _resolve_first_annual_date(as_of_date, Some(body.recurring_start_date),
                                            None, None)
        start_offset == _months_between(as_of_date, first.value)
    IN  CHOOSE handled \in
            {RecurringHandled("simulate_annual_recurring_extra", body, sim, as_of_date,
                              start_offset,
                              [annual_extra_amount |-> sim.value.recurring_extra_payment,
                               as_of_date |-> as_of_date,
                               first_annual_extra_date |-> Some(first.value)]) :
                sim \in {simulate_annual_recurring_extra(
                             LoanParamsOf(body), body.annual_extra_amount,
                             Some(as_of_date), start_offset, clock)}} : TRUE

\* A request to a /v1 route, as FastAPI and the limiter's decorator treat
\* it.  The dependency require_api_key runs first; then the body is
\* validated, `parsed` being the request model's outcome; then the endpoint
\* function is called, and that function is the handler wrapped by
\* limiter.limit, which counts a hit for (client key, route) and raises
\* RateLimitExceeded once the window holds more than `limit`; only then
\* does the handler run, `handled` being what it does with parsed.value.
\* The counter stops at limit + 1.
Served(route, limit, request, parsed, handled) ==
    LET key == <<_client_ip(request), route>> IN
    /\ op' = route
    /\ args' = request
    /\ IF require_api_key(request.api_key, request)
       THEN /\ ret' = JSONResponse(401, [detail |-> "invalid or missing api key"])
            /\ calls' = <<>>
            /\ UNCHANGED <<hits, precision>>
       ELSE IF parsed.raised
       THEN /\ ret' = JSONResponse(422, [detail |-> parsed.error])
            /\ calls' = <<>>
            /\ UNCHANGED <<hits, precision>>
       ELSE /\ hits' = [hits EXCEPT ![key] = IMin(@ + 1, limit + 1)]
            /\ UNCHANGED precision
            /\ IF hits[key] + 1 > limit
               THEN ret' = _rate_limit_handler /\ calls' = <<>>
               ELSE \E h \in {handled} : ret' = h.response /\ calls' = h.calls

----------------------------------------------------------------------------
(* Inputs *)

\* Annual rates in percent: monthly rates 0, 1/10, 1/4, 1/2 and 1.
AnnualRates == {0, 120, 300, 600, 1200}
\* The rates used with LongTerm.
LongRates == {0, 1200}

Principals == {-100, 0, 100, 240}

Terms == (-1 .. MaxTerm) \cup {LongTerm}

Methods == {METHOD_ANNUITY, METHOD_EQUAL_PRINCIPAL}

\* (annual rate, term) pairs the model builds schedules for.
RateTerms ==
    {<<a, n>> \in AnnualRates \X Terms : n <= MaxTerm \/ a \in LongRates}

\* Method strings: each name in four letter cases, padded with whitespace on
\* either side, and strings that are no method name.
upper(s) == [i \in 1..Len(s) |->
                IF \E k \in 1..26 : LowerLetters[k] = s[i]
                THEN UpperLetters[CHOOSE k \in 1..26 : LowerLetters[k] = s[i]]
                ELSE s[i]]
capitalize(s) == [i \in 1..Len(s) |-> IF i = 1 THEN upper(s)[i] ELSE s[i]]
alternate(s) == [i \in 1..Len(s) |-> IF i % 2 = 0 THEN upper(s)[i] ELSE s[i]]
LetterCases(s) == {s, upper(s), capitalize(s), alternate(s)}

MethodNames ==
    {S_annuity, S_equal_payment, S_equal_installment, S_equal_principal, S_principal}
OtherWords ==
    {<<"e", "q", "u", "a", "l">>, <<"p", "a", "y", "m", "e", "n", "t">>,
     <<"a", "n", "n", "u", "i", "t", "y", "s">>,
     <<"e", "q", "u", "a", "l", " ", "p", "a", "y", "m", "e", "n", "t">>,
     <<"e", "q", "u", "a", "l", "-", "p", "r", "i", "n", "c", "i", "p", "a", "l">>,
     <<>>}
Pads == {<<>>, <<" ">>, <<"\t", " ">>, <<"\n">>}

MethodInputs ==
    {None} \cup
    {Some(l \o c \o r) :
        l \in Pads, r \in Pads,
        c \in UNION {LetterCases(w) : w \in MethodNames \cup OtherWords}}

\* Calendar dates, near and far.
Dates == {Date(y, m, d) : y \in {1990, 2024, 2025, 2060}, m \in {1, 3, 12}, d \in {1, 15, 28}}

\* Method strings given to simulate.
SimMethods ==
    {None, Some(S_equal_payment), Some(S_equal_principal),
     Some(<<"b", "o", "g", "u", "s">>)}

PrepayAmounts == {0, 30, 100, 300}

\* (annual rate, term, method) triples given to simulate: the monthly rates
\* -1/2 (an annual rate below zero), 0, 1/2 and 1, and on the long term
\* only the loans whose schedules stay within the integer range (no
\* interest, or equal principal).
SimLoans ==
    {l \in RateTerms \X SimMethods :
        /\ l[1][1] \in {0, 600, 1200}
        /\ \/ l[1][2] <= MaxTerm
           \/ l[1][1] = 0
           \/ l[2] = Some(S_equal_principal)}
    \cup ({-600} \X (0..MaxTerm)) \X SimMethods

\* date.today() during the calls.
Today == Date(2025, 3, 15)

\* (paid_periods, first_payment_date) pairs for a loan of n periods: explicit
\* counts inside, at and beyond both ends of the term, and an absent count
\* with no date, a date two months back and a date decades back.
PaidInputs(n) ==
    {<<Some(k), None>> :
        k \in {-1, 0, 1, n - 1, n, n + 1} \cup (0..IMin(n, MaxTerm))}
    \cup {<<None, None>>, <<None, Some(Date(2025, 1, 15))>>, <<None, Some(Date(1990, 1, 1))>>}

\* Rows of hand-made schedules: <<interest, principal>>.
RowShapes == {<<20, 1>>, <<6, 1>>, <<5, 5>>, <<1, 30>>, <<0, 100>>}
MaxRows == 3
\* The month_index of the row before the first one: 0 for a fresh schedule,
\* more for the tail of a longer one.
Offsets == {0, 1, 12}

RECURSIVE ShapeSeqs(_)
ShapeSeqs(n) ==
    IF n = 0 THEN {<<>>}
    ELSE {<<>>} \cup {<<h>> \o t : h \in RowShapes, t \in ShapeSeqs(n - 1)}

\* The schedule with the given row shapes, numbered from offset + 1; each
\* balance is the principal still to come.
HandMadeSchedule(shapes, offset) ==
    [i \in 1..Len(shapes) |->
        ScheduleRow(offset + i, R(shapes[i][1] + shapes[i][2]), R(shapes[i][2]),
                    R(shapes[i][1]),
                    SumField([k \in 1..(Len(shapes) - i) |->
                                 [principal |-> R(shapes[i + k][2])]], "principal"))]

\* Arguments of build_fixed_payment_schedule: monthly rates -1/2, 0, 1/2 and
\* 1; payments that are no payment, that fall short of, equal and just
\* exceed the first interest, and that pay the loan off in one or a few
\* periods; ceilings none, one, two and twice the longest term.
FixedRates == {-600, 0, 600, 1200}
FixedPayments == {-10, 0, 10, 50, 51, 60, 130, 300}
FixedCeilings == {-1, 0, 1, 2, 2 * MaxTerm}

\* JSON bodies posted to the export endpoint: within and outside every
\* validated range, paid_periods given, null or left out.
RequestPrincipals == {0, 100, 240, MAX_PRINCIPAL + 1}
RequestTerms == {0, 1, 2, 3, MaxTerm, LongTerm, MAX_TERM_MONTHS + 1}
RequestMethods == {S_equal_payment, S_equal_principal, S_annuity}
RequestPaidPeriods(n) ==
    {[given |-> FALSE, value |-> None], [given |-> TRUE, value |-> None]}
    \cup {[given |-> TRUE, value |-> Some(k)] : k \in {-1, 0, 1, n, n + 1}}
RequestDates == {None, Some(Date(2025, 1, 15))}
RequestPrepayAmounts == {0, 30, 300}
RequestRates == {-1, 0, MAX_ANNUAL_RATE, MAX_ANNUAL_RATE + 1}
\* (annual rate, term) pairs: a positive rate goes with the terms whose
\* schedules stay within the integer range.
RequestRateTerms == {rn \in RequestRates \X RequestTerms : rn[1] <= 0 \/ rn[2] <= 2}

\* Values of MAX_SCHEDULE_ROWS the service is configured with: the default
\* and a ceiling that short schedules exceed.
TightRowCeiling == 2
RowCeilings == {MAX_SCHEDULE_ROWS, TightRowCeiling}

\* Sizes the archive comes to.
ZipSizes == {1024, MAX_EXPORT_BYTES, MAX_EXPORT_BYTES + 1}

\* Calendar dates around a leap year: the ends of February and of the 30-
\* and 31-day months, and the turn of the year.
CalendarDates ==
    {Date(y, m, d) : y \in {2023, 2024}, m \in {1, 2, 3, 4, 12}, d \in {1, 15, 28}}
    \cup {Date(2024, 2, 29), Date(2023, 4, 30), Date(2023, 12, 31), Date(2024, 1, 31)}

\* Requested days of the month: the first, the middle and every month end.
AnnualDays == {1, 15, 28, 29, 30, 31}

\* (recurring_start_date, annual_month, annual_day) triples: a month/day
\* pair, a start date alone (as recurring:annual sends it), a start date
\* together with a pair, and nothing at all.
AnnualRequests ==
    {<<None, Some(m), Some(d)>> : m \in 1..12, d \in AnnualDays}
    \cup {<<Some(s), None, None>> : s \in CalendarDates}
    \cup {<<Some(s), Some(6), Some(30)>> : s \in {Date(2023, 2, 28), Date(2024, 12, 1)}}
    \cup {<<None, None, None>>, <<None, Some(0), Some(15)>>, <<None, Some(6), None>>}

\* The configured API key and what clients send for it.
Secret == "secret"
\* The address of the connection, and addresses named in proxy headers.
RemoteAddress == <<"1", "0">>
ForwardedAddress == <<"7", "7">>
RealAddress == <<"9">>

NoHeaders == [x_api_key |-> None, x_forwarded_for |-> None, x_real_ip |-> None]
Keyed == [NoHeaders EXCEPT !.x_api_key = Some(Secret)]

\* Header sets: no key, the key, another key, an empty key, and the key
\* with proxy headers (a padded first entry, an empty first entry).
HeaderSets ==
    {NoHeaders, Keyed,
     [NoHeaders EXCEPT !.x_api_key = Some("guess")],
     [NoHeaders EXCEPT !.x_api_key = Some("")],
     [Keyed EXCEPT !.x_forwarded_for = Some(<<<<" ">> \o ForwardedAddress, RealAddress>>)],
     [Keyed EXCEPT !.x_forwarded_for = Some(<<<<" ">>>>), !.x_real_ip = Some(RealAddress)]}

\* How a request arrives: over which connection, with which headers, at a
\* server configured with which API_KEY.
Transports ==
    {[client |-> RemoteAddress, headers |-> h, api_key |-> k] :
        h \in HeaderSets, k \in {None, Some(Secret), Some("")}}

\* A client that carries the configured key and sends no proxy header.
PlainTransport == [client |-> RemoteAddress, headers |-> Keyed, api_key |-> Some(Secret)]

\* A second client, told apart by its x-forwarded-for header.
OtherTransport ==
    [client |-> RemoteAddress,
     headers |-> [Keyed EXCEPT !.x_forwarded_for = Some(<<ForwardedAddress>>)],
     api_key |-> Some(Secret)]

ClientKeys == {RemoteAddress, ForwardedAddress, RealAddress}
LimitedRoutes ==
    {"calc_prepayment", "calc_recurring_extra", "export_zip", "export_combined_schedule",
     "calc_scheduled_recurring", "calc_lump_sum_recurring", "calc_annual_recurring"}

\* JSON bodies for LoanRequest.
LoanJsons ==
    UNION {{[principal |-> R(p), annual_rate |-> R(rn[1]), term_months |-> rn[2],
             method |-> m, paid_periods |-> pp, first_payment_date |-> d,
             prepay_amount |-> R(a)] :
                p \in RequestPrincipals, m \in RequestMethods, d \in RequestDates,
                a \in RequestPrepayAmounts, pp \in RequestPaidPeriods(rn[2])} :
           rn \in RequestRateTerms}

\* A few LoanRequest bodies to send over every transport: a valid one, one
\* over the term limit, one over the prepayment ratio.
ProbeLoanJsons ==
    {[principal |-> R(100), annual_rate |-> Zero, term_months |-> t,
      method |-> S_equal_payment, paid_periods |-> [given |-> FALSE, value |-> None],
      first_payment_date |-> None, prepay_amount |-> R(a)] :
        t \in {2, MAX_TERM_MONTHS + 1}, a \in {30, 300}}

\* JSON bodies for CombinedLoanRequest: each leg absent or present, with
\* and without a rate; a long term goes with equal_principal, whose rows
\* stay within the integer range.
CombinedJsons ==
    {j \in [fund_principal : {Zero, R(100)}, fund_annual_rate : {Zero, R(24)},
            commercial_principal : {Zero, R(240), R(MAX_PRINCIPAL + 1)},
            commercial_annual_rate : {Zero, R(MAX_ANNUAL_RATE)},
            term_months : {0, 1, 2, LongTerm, MAX_TERM_MONTHS + 1},
            method : RequestMethods] :
        j.term_months <= 2 \/ j.method # S_equal_payment}

\* JSON bodies for RecurringInvestmentRequest: the extra amount absent,
\* within and over the principal.
RecurringJsons ==
    UNION {{[principal |-> R(p), annual_rate |-> R(rn[1]), term_months |-> rn[2],
             method |-> m, paid_periods |-> pp, first_payment_date |-> d,
             recurring_extra_amount |-> R(a)] :
                p \in {0, 100}, m \in RequestMethods, d \in RequestDates,
                a \in {0, 30, 300}, pp \in RequestPaidPeriods(rn[2])} :
           rn \in RequestRateTerms}

ProbeRecurringJsons ==
    {[principal |-> R(100), annual_rate |-> Zero, term_months |-> 2,
      method |-> S_equal_payment, paid_periods |-> [given |-> FALSE, value |-> None],
      first_payment_date |-> None, recurring_extra_amount |-> R(30)]}

\* The loan of a dated recurring request: interest goes with the short
\* terms, the long term with no interest.
DatedLoans ==
    {[principal |-> R(100), annual_rate |-> R(rn[1]), term_months |-> rn[2], method |-> m,
      paid_periods |-> pp, first_payment_date |-> d] :
        rn \in {<<0, 2>>, <<0, LongTerm>>, <<MAX_ANNUAL_RATE, 2>>, <<MAX_ANNUAL_RATE, 3>>,
                <<0, MAX_TERM_MONTHS + 1>>},
        m \in {S_equal_payment, S_equal_principal},
        pp \in {None, Some(0), Some(1), Some(LongTerm + 1)},
        d \in RequestDates}

\* As-of and repayment dates: absent, the first payment date of the
\* requests, and a day before it.
AsOfDates == {None, Some(Date(2025, 1, 15)), Some(Date(2024, 12, 1))}
\* Start dates of the extra payments: absent, before, and one and ten
\* months after the as-of dates.
StartDates == {None, Some(Date(2024, 1, 31)), Some(Date(2025, 2, 15)), Some(Date(2025, 11, 15))}

\* JSON bodies for ScheduledRecurringRequest.
ScheduledJsons ==
    {l @@ [as_of_date |-> a, recurring_extra_amount |-> R(x), recurring_start_date |-> sd,
           frequency |-> f, annual_month |-> md[1], annual_day |-> md[2]] :
        l \in DatedLoans, a \in AsOfDates, x \in {30, 300}, sd \in StartDates,
        f \in {None, Some(S_annual), Some(capitalize(S_annual)), Some(S_annuity)},
        md \in {<<None, None>>, <<Some(6), Some(30)>>, <<Some(13), Some(1)>>}}

\* JSON bodies for LumpSumRecurringRequest.
LumpSumJsons ==
    {l @@ [repayment_date |-> a, recurring_extra_amount |-> R(x), recurring_start_date |-> sd] :
        l \in DatedLoans, a \in AsOfDates, x \in {0, 30, 300}, sd \in StartDates}

\* JSON bodies for AnnualRecurringRequest.
AnnualJsons ==
    {l @@ [as_of_date |-> a, annual_extra_amount |-> R(x), recurring_start_date |-> sd] :
        l \in DatedLoans, a \in AsOfDates, x \in {0, 30, 300}, sd \in StartDates}

\* Requests: every body from the plain client, the probe bodies over every
\* transport.
Requests(bodies, probes) ==
    {PlainTransport @@ [json |-> j] : j \in bodies}
    \cup {t @@ [json |-> j] : t \in Transports, j \in probes}

ProbeCombinedJsons ==
    {j \in CombinedJsons : j.fund_principal = Zero /\ j.commercial_annual_rate # Zero
                             /\ j.method = S_equal_principal}

----------------------------------------------------------------------------
(* The state machine: one action per call *)

Init ==
    /\ op = "idle"
    /\ args = <<>>
    /\ ret = <<>>
    /\ calls = <<>>
    /\ hits = [k \in ClientKeys \X LimitedRoutes |-> 0]
    /\ precision = 0

\* No request has been counted in the current window of any client.
FreshWindow == \A k \in DOMAIN hits : hits[k] = 0

\* A direct call of a library function: it makes no logged call and leaves
\* the limiter alone.  The library neither reads nor writes the limiter's
\* counters, so direct calls are explored from the fresh window only.
Direct ==
    /\ FreshWindow
    /\ calls' = <<>>
    /\ UNCHANGED <<hits, precision>>

\* The caller takes the result; the library is ready for the next call.
Return ==
    /\ op # "idle"
    /\ op' = "idle"
    /\ args' = <<>>
    /\ ret' = <<>>
    /\ calls' = <<>>
    /\ UNCHANGED <<hits, precision>>

\* The fixed window of one counter runs out.
WindowExpires ==
    /\ op = "idle"
    /\ \E k \in DOMAIN hits :
        /\ hits[k] > 0
        /\ hits' = [hits EXCEPT ![k] = 0]
    /\ UNCHANGED <<op, args, ret, calls, precision>>

CallBuildSchedule ==
    /\ op = "idle"
    /\ Direct
    /\ \E p \in Principals, an \in RateTerms, m \in Methods :
        LET rate == monthly_rate(R(an[1])) IN
        /\ op' = "build_schedule"
        /\ args' = [principal |-> R(p), rate |-> rate, months |-> an[2], method |-> m]
        /\ ret' = build_schedule(R(p), rate, an[2], m)

CallBuildFixedPaymentSchedule ==
    /\ op = "idle"
    /\ Direct
    /\ \E p \in Principals, a \in FixedRates, pay \in FixedPayments, n \in FixedCeilings :
        LET rate == monthly_rate(R(a)) IN
        /\ op' = "build_fixed_payment_schedule"
        /\ args' = [principal |-> R(p), rate |-> rate, payment |-> R(pay), max_months |-> n]
        /\ ret' = build_fixed_payment_schedule(R(p), rate, R(pay), n)

CallNormalizeMethod ==
    /\ op = "idle"
    /\ Direct
    /\ \E m \in MethodInputs :
        /\ op' = "normalize_method"
        /\ args' = [method |-> m]
        /\ ret' = normalize_method(m)

CallComputePaidPeriods ==
    /\ op = "idle"
    /\ Direct
    /\ \E term \in 1..MaxTerm,
       paid \in {None} \cup {Some(k) : k \in -2..(MaxTerm + 2)},
       first \in {None} \cup {Some(d) : d \in Dates},
       today \in {None} \cup {Some(d) : d \in Dates},
       clock \in {Today} :
        LET params == [term_months |-> term, paid_periods |-> paid,
                       first_payment_date |-> first]
        IN  /\ paid.some => ~today.some
            /\ op' = "compute_paid_periods"
            /\ args' = [params |-> params, today |-> today, clock |-> clock]
            /\ ret' = compute_paid_periods(params, today, clock)

CallFindCriticalPoint ==
    /\ op = "idle"
    /\ Direct
    /\ \E shapes \in ShapeSeqs(MaxRows), offset \in Offsets :
        LET schedule == HandMadeSchedule(shapes, offset)
        IN  /\ op' = "find_critical_point"
            /\ args' = [schedule |-> schedule]
            /\ ret' = find_critical_point(schedule)

CallResolveFirstAnnualDate ==
    /\ op = "idle"
    /\ Direct
    /\ \E as_of \in CalendarDates, r \in AnnualRequests :
        /\ op' = "_resolve_first_annual_date"
        /\ args' = [as_of |-> as_of, recurring_start_date |-> r[1],
                    annual_month |-> r[2], annual_day |-> r[3]]
        /\ ret' = _resolve_first_annual_date(as_of, r[1], r[2], r[3])

CallMonthsBetween ==
    /\ op = "idle"
    /\ Direct
    /\ \E start \in CalendarDates, end \in CalendarDates :
        /\ op' = "_months_between"
        /\ args' = [start |-> start, end |-> end]
        /\ ret' = _months_between(start, end)

CallSimulate ==
    /\ op = "idle"
    /\ Direct
    /\ \E p \in Principals, l \in SimLoans, a \in PrepayAmounts :
        \E pf \in PaidInputs(l[1][2]) :
        LET an == l[1]
            m == l[2]
            params == [principal |-> R(p), annual_rate |-> R(an[1]), term_months |-> an[2],
                       method |-> m, paid_periods |-> pf[1], first_payment_date |-> pf[2]]
            prepayment == [amount |-> R(a), invest_annual_rate |-> None]
        IN  /\ op' = "simulate"
            /\ args' = [params |-> params, prepayment |-> prepayment, clock |-> Today]
            /\ ret' = simulate(params, prepayment, Today)

\* GET /health: limiter.exempt, no dependency, no body.
GetHealthFrom(transports) ==
    /\ op = "idle"
    /\ \E request \in transports :
        /\ op' = "health"
        /\ args' = request
        /\ ret' = health.response
        /\ calls' = health.calls
        /\ UNCHANGED <<hits, precision>>

\* POST /v1/mortgages/prepayment:calc
PostCalcFrom(requests) ==
    /\ op = "idle"
    /\ \E r \in requests :
        Served("calc_prepayment", DEFAULT_RATE_LIMIT, r @@ [clock |-> Today],
               LoanRequest(r.json), calc_prepayment(LoanRequest(r.json).value, Today))

\* POST /v1/mortgages/prepayment:export-zip.  rows is the configured
\* MAX_SCHEDULE_ROWS, z the size the archive comes to.
PostExportZipFrom(requests, ceilings, sizes) ==
    /\ op = "idle"
    /\ \E r \in requests, rows \in ceilings, z \in sizes :
        Served("export_zip", EXPORT_RATE_LIMIT,
               r @@ [clock |-> Today, max_schedule_rows |-> rows, zip_size |-> z],
               LoanRequest(r.json), export_zip(LoanRequest(r.json).value, Today, rows, z))

\* POST /v1/mortgages/combined:export-xlsx
PostExportCombinedFrom(requests, ceilings, sizes) ==
    /\ op = "idle"
    /\ \E r \in requests, rows \in ceilings, z \in sizes :
        Served("export_combined_schedule", EXPORT_RATE_LIMIT,
               r @@ [max_schedule_rows |-> rows, zip_size |-> z],
               CombinedLoanRequest(r.json),
               export_combined_schedule(CombinedLoanRequest(r.json).value, rows, z))

\* POST /v1/mortgages/recurring:calc
PostRecurringCalcFrom(requests) ==
    /\ op = "idle"
    /\ \E r \in requests :
        Served("calc_recurring_extra", DEFAULT_RATE_LIMIT, r @@ [clock |-> Today],
               RecurringInvestmentRequest(r.json),
               calc_recurring_extra(RecurringInvestmentRequest(r.json).value, Today))

\* The requests of Spec are each the first of their window; what the
\* limiter does over a window is explored by ServerSpec below.
GetHealth == FreshWindow /\ GetHealthFrom(Transports)
PostCalc == FreshWindow /\ PostCalcFrom(Requests(LoanJsons, ProbeLoanJsons))
PostRecurringCalc ==
    FreshWindow /\ PostRecurringCalcFrom(Requests(RecurringJsons, ProbeRecurringJsons))
\* POST /v1/mortgages/recurring:calc-scheduled
PostScheduledRecurring ==
    /\ FreshWindow
    /\ op = "idle"
    /\ \E j \in ScheduledJsons :
        Served("calc_scheduled_recurring", DEFAULT_RATE_LIMIT,
               PlainTransport @@ [json |-> j, clock |-> Today], ScheduledRecurringRequest(j),
               calc_scheduled_recurring(ScheduledRecurringRequest(j).value, Today))

\* POST /v1/mortgages/recurring:lump-sum
PostLumpSumRecurring ==
    /\ FreshWindow
    /\ op = "idle"
    /\ \E j \in LumpSumJsons :
        Served("calc_lump_sum_recurring", DEFAULT_RATE_LIMIT,
               PlainTransport @@ [json |-> j, clock |-> Today], LumpSumRecurringRequest(j),
               calc_lump_sum_recurring(LumpSumRecurringRequest(j).value, Today))

\* POST /v1/mortgages/recurring:annual
PostAnnualRecurring ==
    /\ FreshWindow
    /\ op = "idle"
    /\ \E j \in AnnualJsons :
        Served("calc_annual_recurring", DEFAULT_RATE_LIMIT,
               PlainTransport @@ [json |-> j, clock |-> Today], AnnualRecurringRequest(j),
               calc_annual_recurring(AnnualRecurringRequest(j).value, Today))

PostExportZip ==
    FreshWindow /\ PostExportZipFrom(Requests(LoanJsons, ProbeLoanJsons), RowCeilings, ZipSizes)
PostExportCombined ==
    FreshWindow /\ PostExportCombinedFrom(Requests(CombinedJsons, ProbeCombinedJsons),
                                          RowCeilings, ZipSizes)

Next ==
    \/ CallBuildSchedule
    \/ CallBuildFixedPaymentSchedule
    \/ CallNormalizeMethod
    \/ CallComputePaidPeriods
    \/ CallFindCriticalPoint
    \/ CallResolveFirstAnnualDate
    \/ CallMonthsBetween
    \/ CallSimulate
    \/ GetHealth
    \/ PostExportCombined
    \/ PostCalc
    \/ PostRecurringCalc
    \/ PostScheduledRecurring
    \/ PostLumpSumRecurring
    \/ PostAnnualRecurring
    \/ PostExportZip
    \/ WindowExpires
    \/ Return

Spec == Init /\ [][Next]_vars

\* The server under load: one client sends request after request, with and
\* without the API key, with valid and invalid bodies, while its windows
\* fill and run out; a second client sends up to MaxOtherHits requests.
ServerTransports ==
    {PlainTransport, [PlainTransport EXCEPT !.headers = NoHeaders]}
    \cup (IF \A route \in LimitedRoutes : hits[<<ForwardedAddress, route>>] < MaxOtherHits
          THEN {OtherTransport} ELSE {})

ServerRequests == {t @@ [json |-> j] : t \in ServerTransports, j \in ProbeLoanJsons}

ServerGetHealth == GetHealthFrom(ServerTransports)
ServerPostCalc == PostCalcFrom(ServerRequests)
ServerPostExportZip ==
    PostExportZipFrom(ServerRequests, {MAX_SCHEDULE_ROWS}, {MAX_EXPORT_BYTES})

ServerNext ==
    \/ ServerGetHealth
    \/ ServerPostCalc
    \/ ServerPostExportZip
    \/ WindowExpires
    \/ Return

ServerSpec == Init /\ [][ServerNext]_vars

\* The calculator in rounding arithmetic.  Python's float has 53 bits; the
\* model rounds the same way, to nearest with ties to even, at precisions
\* whose mantissas fit TLC's integers.
FloatPrecisions == {8, 11}

FloatInit ==
    /\ op = "idle"
    /\ args = <<>>
    /\ ret = <<>>
    /\ calls = <<>>
    /\ hits = [k \in ClientKeys \X LimitedRoutes |-> 0]
    /\ precision \in FloatPrecisions

FloatNext ==
    \/ CallSimulate
    \/ CallBuildFixedPaymentSchedule
    \/ Return

FloatSpec == FloatInit /\ [][FloatNext]_vars

----------------------------------------------------------------------------
(* Claims *)

IsVariant(s, n) ==
    \E i \in 0..Len(s) : \E j \in i..Len(s) :
        /\ \A k \in 1..i : s[k] \in Whitespace
        /\ \A k \in (j + 1)..Len(s) : s[k] \in Whitespace
        /\ Len(n) = j - i
        /\ \A k \in 1..Len(n) : LowerChar(s[i + k]) = n[k]

\* C9: normalize_method maps annuity, equal_payment and equal_installment, in
\* any letter case and with surrounding whitespace, to equal_payment; maps
\* equal_principal and principal likewise to equal_principal; and raises
\* ValueError for every other string, the empty string and None.
C9_MethodAliasNormalization ==
    op = "normalize_method" =>
        LET m == args.method IN
        IF m.some /\ \E n \in {S_annuity, S_equal_payment, S_equal_installment} :
                         IsVariant(m.val, n)
        THEN ret = Ok("equal_payment")
        ELSE IF m.some /\ \E n \in {S_equal_principal, S_principal} : IsVariant(m.val, n)
             THEN ret = Ok("equal_principal")
             ELSE ret = Raise("ValueError")

C9_Witness ==
    /\ op = "normalize_method"
    /\ args.method = Some(<<"\t", " ">> \o upper(S_equal_installment) \o <<"\n">>)
    /\ ret = Ok("equal_payment")

\* C10: for term_months > 0, compute_paid_periods returns a value in
\* [0, term_months] for every explicit paid_periods and, when paid_periods is
\* absent, for every first_payment_date and every today; with neither
\* supplied it returns 0.
C10_ElapsedPeriodClamp ==
    (op = "compute_paid_periods" /\ args.params.term_months > 0)
    => /\ 0 <= ret /\ ret <= args.params.term_months
       /\ (~args.params.paid_periods.some /\ ~args.params.first_payment_date.some)
            => ret = 0

\* A first payment decades before today: the raw month count exceeds the term.
C10_Witness ==
    /\ op = "compute_paid_periods"
    /\ ~args.params.paid_periods.some
    /\ args.params.first_payment_date = Some(Date(1990, 1, 1))
    /\ args.today = Some(Date(2060, 12, 28))
    /\ ret = args.params.term_months

\* simulate was called and returned a result (it did not raise).
SimulateReturned == op = "simulate" /\ ~ret.raised

\* C2: for a loan with remaining principal R > 0, simulate with a prepayment
\* amount larger than R returns what simulate returns for the amount exactly
\* R: both alternative schedules empty, reduced_monthly_payment = 0,
\* shorten_months = 0 and both savings equal to base_remaining_interest.
C2_PrepaymentCapping ==
    (/\ SimulateReturned
     /\ RLt(Zero, ret.value.remaining_principal)
     /\ RLt(ret.value.remaining_principal, args.prepayment.amount))
    => /\ ret = simulate(args.params,
                         [args.prepayment EXCEPT !.amount = ret.value.remaining_principal],
                         args.clock)
       /\ ret.value.reduced_schedule = <<>>
       /\ ret.value.shorten_schedule = <<>>
       /\ ret.value.reduced_monthly_payment = Zero
       /\ ret.value.shorten_months = 0
       /\ ret.value.savings_reduce = ret.value.base_remaining_interest
       /\ ret.value.savings_shorten = ret.value.base_remaining_interest

\* An overpayment on a loan part-way through its term that still owes interest.
C2_Witness ==
    /\ SimulateReturned
    /\ ret.value.paid_periods > 0
    /\ RLt(Zero, ret.value.remaining_principal)
    /\ RLt(ret.value.remaining_principal, args.prepayment.amount)
    /\ RLt(Zero, ret.value.base_remaining_interest)
    /\ ret.value.savings_shorten = ret.value.base_remaining_interest

InterestOfRows(schedule, lo, hi) ==
    SumField(SubSeq(schedule, lo, IMin(hi, Len(schedule))), "interest")

\* C5: for a simulate result with a non-empty base_schedule and paid_periods
\* in 0..term_months-1, interest_by_year is keyed from the remaining
\* schedule's own start: key k holds the summed interest of rows
\* 12(k-1)+1 .. 12k of base_schedule.
C5_InterestByYearRelative ==
    (/\ SimulateReturned
     /\ ret.value.base_schedule # <<>>
     /\ ret.value.paid_periods \in 0..(args.params.term_months - 1))
    => LET base == ret.value.base_schedule
           years == 1..((Len(base) + 11) \div 12)
       IN  /\ DOMAIN ret.value.interest_by_year = years
           /\ \A k \in years :
                ret.value.interest_by_year[k] = InterestOfRows(base, 12 * (k - 1) + 1, 12 * k)

\* Row j of the schedule has interest < principal.
InterestBelowPrincipal(schedule, j) == RLt(schedule[j].interest, schedule[j].principal)

\* The interest of rows j.. is less than a tenth of the payments of rows j..
\* (for schedules whose payments are positive).
RemainingInterestBelowTenth(schedule, j) ==
    RLt(RMul(R(10), SumField(SubSeq(schedule, j, Len(schedule)), "interest")),
        SumField(SubSeq(schedule, j, Len(schedule)), "payment"))

MeetsEither(schedule, j) ==
    InterestBelowPrincipal(schedule, j) \/ RemainingInterestBelowTenth(schedule, j)

\* C6: a critical_month_index c reported by simulate, for paid_periods in
\* 0..term_months-1, counts from 1 at the start of the remaining schedule:
\* 1 <= c <= len(base_schedule) and base_schedule[c-1] (0-based) is the row
\* that met the critical condition, the first one to meet it.
C6_CriticalIndexRelative ==
    (/\ SimulateReturned
     /\ ret.value.critical_month_index.some
     /\ ret.value.paid_periods \in 0..(args.params.term_months - 1))
    => LET base == ret.value.base_schedule
           c == ret.value.critical_month_index.val
       IN  /\ 1 <= c /\ c <= Len(base)
           /\ MeetsEither(base, c)
           /\ \A j \in 1..(c - 1) : ~MeetsEither(base, j)

\* The position in the schedule of the row numbered m.
PositionOf(schedule, m) == CHOOSE j \in 1..Len(schedule) : schedule[j].month_index = m

\* C7: a month index m reported by find_critical_point with reason
\* monthly_interest_below_principal has interest >= principal on every row
\* before it; with reason remaining_interest_below_10_percent the ratio of
\* remaining interest to remaining payment is < 0.10 from m on and >= 0.10
\* at every earlier row; (None, None) is reported exactly when the schedule
\* is empty or no row meets either condition.
C7_CriticalPointOrdering ==
    (op = "find_critical_point")
    => LET schedule == args.schedule
           rows == 1..Len(schedule)
       IN  /\ ret.reason = Some("monthly_interest_below_principal")
                => /\ \E j \in rows : schedule[j].month_index = ret.month_index.val
                   /\ \A j \in 1..(PositionOf(schedule, ret.month_index.val) - 1) :
                        ~InterestBelowPrincipal(schedule, j)
           /\ ret.reason = Some("remaining_interest_below_10_percent")
                => /\ \E j \in rows : schedule[j].month_index = ret.month_index.val
                   /\ RemainingInterestBelowTenth(schedule,
                                                  PositionOf(schedule, ret.month_index.val))
                   /\ \A j \in 1..(PositionOf(schedule, ret.month_index.val) - 1) :
                        ~RemainingInterestBelowTenth(schedule, j)
           /\ ret.reason \in {None, Some("monthly_interest_below_principal"),
                               Some("remaining_interest_below_10_percent")}
           /\ ret.month_index.some <=> ret.reason.some
           /\ ret = NoCriticalPoint
                <=> (schedule = <<>> \/ \A j \in rows : ~MeetsEither(schedule, j))

\* The 10 percent reason reported at the second row of a tail schedule, whose
\* first row is interest-heavy and whose rows never have interest below
\* principal before that.
C7_Witness ==
    /\ op = "find_critical_point"
    /\ ret.reason = Some("remaining_interest_below_10_percent")
    /\ Len(args.schedule) = MaxRows
    /\ args.schedule[1].month_index = 13
    /\ ret.month_index = Some(14)

\* C8: for principal <= 0 or term_months <= 0, whatever the method string,
\* paid_periods or prepayment amount, simulate does not raise and returns a
\* result whose numeric fields are all 0, whose three schedules and
\* interest_by_year are empty and whose critical point is absent.
C8_DegenerateInputAllZero ==
    (/\ op = "simulate"
     /\ RLe(args.params.principal, Zero) \/ args.params.term_months <= 0)
    => /\ ~ret.raised
       /\ \A f \in {"paid_periods", "remaining_months", "shorten_months"} :
            ret.value[f] = 0
       /\ \A f \in {"remaining_principal", "original_monthly_payment",
                     "reduced_monthly_payment", "base_remaining_interest",
                     "reduced_remaining_interest", "shorten_remaining_interest",
                     "savings_reduce", "savings_shorten"} :
            ret.value[f] = Zero
       /\ \A f \in {"base_schedule", "reduced_schedule", "shorten_schedule"} :
            ret.value[f] = <<>>
       /\ DOMAIN ret.value.interest_by_year = {}
       /\ ret.value.critical_month_index = None
       /\ ret.value.critical_reason = None

\* A non-positive principal together with a method string that
\* normalize_method rejects and an explicit paid_periods.
C8_Witness ==
    /\ op = "simulate"
    /\ RLe(args.params.principal, Zero)
    /\ args.params.method = Some(<<"b", "o", "g", "u", "s">>)
    /\ args.params.paid_periods = Some(1)
    /\ RLt(Zero, args.prepayment.amount)
    /\ ~ret.raised

\* C4: a valid export-zip request, carrying the API key, whose schedules and archive are within the
\* row and size ceilings is answered 200: the call to generate_pdf succeeds
\* and yields the bytes of the PDF document, and the zip has exactly four
\* entries, the base, reduced and shorten spreadsheets and the PDF analysis,
\* with X-Savings-Reduce and X-Savings-Shorten headers.
C4_ExportZipSucceeds ==
    (/\ op = "export_zip"
     /\ ~require_api_key(args.api_key, args)
     /\ ~LoanRequest(args.json).raised
     /\ LET body == LoanRequest(args.json).value
            result == simulate(LoanParamsOf(body), PrepaymentOf(body), args.clock).value
        IN  \A f \in {"base_schedule", "reduced_schedule", "shorten_schedule"} :
                Len(result[f]) <= args.max_schedule_rows
     /\ args.zip_size <= MAX_EXPORT_BYTES)
    => /\ ret.status = 200
       /\ [i \in 1..Len(ret.entries) |-> ret.entries[i].file]
            = <<"base_schedule_xlsx", "reduced_schedule_xlsx", "shorten_schedule_xlsx",
                "analysis_report_pdf">>
       /\ ret.entries[4].content = [type |-> "bytes", holds |-> "pdf_document"]
       /\ {"X-Savings-Reduce", "X-Savings-Shorten"} \subseteq DOMAIN ret.headers


\* A call of build_schedule with principal > 0 and months > 0 has returned.
BuildScheduleReturned ==
    op = "build_schedule" /\ RLt(Zero, args.principal) /\ args.months > 0

\* P*r*(1+r)^n / ((1+r)^n - 1)
AnnuityAmount(P, r, n) ==
    RDiv(RMul(RMul(P, r), RPow(RAdd(R(1), r), n)),
         RSub(RPow(RAdd(R(1), r), n), R(1)))

C19_EqualPrincipalRowShape ==
    (BuildScheduleReturned /\ args.method = METHOD_EQUAL_PRINCIPAL
        /\ RLe(Zero, args.rate))
    => /\ Len(ret) = args.months
       /\ \A i \in 1..(Len(ret) - 1) :
            /\ ret[i].principal = RDiv(args.principal, R(args.months))
            /\ RLe(ret[i + 1].payment, ret[i].payment)

C19_Witness ==
    /\ BuildScheduleReturned
    /\ args.method = METHOD_EQUAL_PRINCIPAL
    /\ RLt(Zero, args.rate)
    /\ Len(ret) = MaxTerm
    /\ ret[1].principal = RDiv(args.principal, R(MaxTerm))
    /\ RLt(ret[2].payment, ret[1].payment)

\* C20: at rate 0, for principal > 0 and months > 0, build_schedule returns
\* the same schedule for equal_payment and for equal_principal, and in every
\* row payment = principal portion = principal/months and interest = 0.
C20_ZeroRateMethodsAgree ==
    (BuildScheduleReturned /\ args.rate = Zero
        /\ args.method \in {METHOD_ANNUITY, METHOD_EQUAL_PRINCIPAL})
    => /\ Len(ret) = args.months
       /\ ret = build_schedule(args.principal, args.rate, args.months, METHOD_ANNUITY)
       /\ ret = build_schedule(args.principal, args.rate, args.months,
                               METHOD_EQUAL_PRINCIPAL)
       /\ \A i \in 1..Len(ret) :
            /\ ret[i].payment = RDiv(args.principal, R(args.months))
            /\ ret[i].principal = RDiv(args.principal, R(args.months))
            /\ ret[i].interest = Zero

C20_Witness ==
    /\ BuildScheduleReturned
    /\ args.rate = Zero
    /\ args.method = METHOD_ANNUITY
    /\ Len(ret) = LongTerm
    /\ ret[LongTerm].payment = RDiv(args.principal, R(LongTerm))
    /\ ret[LongTerm].balance = Zero


\* The month/day in effect for a call of _resolve_first_annual_date that
\* does not return the start date itself: the start date's own month and
\* day when one was given, else annual_month and annual_day.
RequestedMonthDay ==
    IF args.recurring_start_date.some
    THEN <<args.recurring_start_date.val.month, args.recurring_start_date.val.day>>
    ELSE <<args.annual_month.val, args.annual_day.val>>

\* The occurrence of month/day in year y, clamped to the month's last day.
Occurrence(y, month, day) == Date(y, month, IMin(day, DaysInMonth(y, month)))

LimitOf(route) ==
    IF route \in {"export_zip", "export_combined_schedule"} THEN EXPORT_RATE_LIMIT
    ELSE DEFAULT_RATE_LIMIT

\* C13: within one rate-limit window of a client key, once the configured
\* limit of requests to an endpoint has been admitted (60 for calculation,
\* 15 for export), every further request of that key to it is answered 429
\* with body {"detail": "Rate limit exceeded"}, be its body valid or not
\* (the requests considered carry the API key); and GET /health is answered
\* {"status": "ok"}, never 429.
C13_RateLimitWindow ==
    [][/\ \A route \in LimitedRoutes :
            (/\ op' = route
             /\ ~require_api_key(args'.api_key, args')
             /\ hits[<<_client_ip(args'), route>>] >= LimitOf(route))
            => ret' = JSONResponse(429, [detail |-> "Rate limit exceeded"])
       /\ op' = "health" => ret' = JSONResponse(200, [status |-> "ok"])
      ]_vars


\* C11: on prepayment:calc and prepayment:export-zip, a request that leaves
\* out paid_periods and supplies first_payment_date is simulated with the
\* elapsed periods derived from first_payment_date: the whole months from
\* that date to today, clamped to the term.
C11_OmittedPaidPeriodsUsesDate ==
    (/\ op \in {"calc_prepayment", "export_zip"}
     /\ calls # <<>>
     /\ ~args.json.paid_periods.given
     /\ args.json.first_payment_date.some)
    => /\ calls[1].fn = "simulate"
       /\ compute_paid_periods(calls[1].arg, None, args.clock)
            = compute_paid_periods([term_months |-> args.json.term_months,
                                    paid_periods |-> None,
                                    first_payment_date |-> args.json.first_payment_date],
                                   None, args.clock)

\* The engine's simulation functions.
EngineFunctions == {"simulate", "simulate_recurring_extra", "simulate_annual_recurring_extra"}

\* The handler called function fn.
Called(fn) == \E i \in 1..Len(calls) : calls[i].fn = fn

\* The request's term is over MAX_TERM_MONTHS, or its prepayment or
\* recurring extra amount is over principal x MAX_PREPAY_RATIO.
OverLimit ==
    \/ args.json.term_months > MAX_TERM_MONTHS
    \/ /\ op \in {"calc_prepayment", "export_zip"}
       /\ RLt(RMul(args.json.principal, R(MAX_PREPAY_RATIO)), args.json.prepay_amount)
    \/ /\ op = "calc_recurring_extra"
       /\ RLt(RMul(args.json.principal, R(MAX_PREPAY_RATIO)),
              args.json.recurring_extra_amount)

KeyConfigured == args.api_key.some /\ args.api_key.val # ""

\* C14: with an API key configured, a request to a /v1/mortgages route
\* whose X-API-Key header is missing or differs from the key is answered
\* 401, calls nothing and gets no 2xx; with the key, or with no key
\* configured, it is not answered 401; GET /health is answered 200 with or
\* without a key.
C14_ApiKeyGate ==
    /\ op \in LimitedRoutes =>
          IF KeyConfigured /\ args.headers.x_api_key # Some(args.api_key.val)
          THEN ret.status = 401 /\ calls = <<>>
          ELSE ret.status # 401
    /\ op = "health" => ret.status = 200

C14_Witness ==
    /\ op = "calc_prepayment"
    /\ KeyConfigured
    /\ ~args.headers.x_api_key.some
    /\ ~LoanRequest(args.json).raised
    /\ ret.status = 401
    /\ calls = <<>>

\* The functions that render the PDF or build the archive.
RenderingFunctions ==
    {"generate_pdf", "zipfile.ZipFile", "_schedule_to_xlsx", "_combined_schedule_to_xlsx"}

\* C15: on the export endpoints, on every path that ends in HTTP 413 the
\* simulation has run and neither generate_pdf nor the construction of the
\* archive has been executed: both ceiling checks come before any rendering.
C15_CeilingsBeforeRendering ==
    (op \in {"export_zip", "export_combined_schedule"} /\ ret.status = 413)
    => /\ calls[1].fn \in {"simulate", "normalize_method"}
       /\ \A fn \in RenderingFunctions : ~Called(fn)

\* Field f of row i of a leg; 0 beyond the leg's length.
LegPart(schedule, i, f) == IF i <= Len(schedule) THEN schedule[i][f] ELSE Zero

\* C16: in combined:export-xlsx the combined schedule is as long as the
\* longer of the fund and commercial schedules; row i has month_index i and
\* payment, principal, interest and balance each the sum of the two legs'
\* values for period i, a leg counting 0 beyond its length (an absent leg
\* throughout); and X-Total-Interest is the sum of the interest of every
\* row of both legs, as a 2-decimal string.
C16_CombinedSchedule ==
    (op = "export_combined_schedule" /\ ret.status = 200)
    => LET body == args.json
           method == normalize_method(Some(body.method)).value
           fund == build_schedule(body.fund_principal, monthly_rate(body.fund_annual_rate),
                                  body.term_months, method)
           commercial == build_schedule(body.commercial_principal,
                                        monthly_rate(body.commercial_annual_rate),
                                        body.term_months, method)
           combined == ret.entries[1].content.combined
       IN  /\ Len(combined) = IMax(Len(fund), Len(commercial))
           /\ \A i \in 1..Len(combined) :
                /\ combined[i].month_index = i
                /\ \A f \in {"payment", "principal", "interest", "balance"} :
                      combined[i][f] = RAdd(LegPart(fund, i, f), LegPart(commercial, i, f))
           /\ ret.headers["X-Total-Interest"]
                = Format2f(RAdd(SumField(fund, "interest"), SumField(commercial, "interest")))

C16_Witness ==
    /\ op = "export_combined_schedule"
    /\ ret.status = 200
    /\ args.json.fund_principal = Zero
    /\ RLt(Zero, args.json.commercial_principal)
    /\ Len(ret.entries[1].content.combined) = LongTerm
    /\ ret.entries[1].content.fund_schedule = <<>>
    /\ ret.headers["X-Total-Interest"] > 0

----------------------------------------------------------------------------
(* Row invariants of the two schedule builders *)

ScheduleReturned == op \in {"build_schedule", "build_fixed_payment_schedule"}

\* The balance the period of row i opens with.
OpeningBalance(principal, rows, i) == IF i = 1 THEN principal ELSE rows[i - 1].balance

Covers(balance) == RLt(Zero, RSub(args.payment, RMul(balance, args.rate)))

\* C25: build_fixed_payment_schedule returns at most max_months rows, and
\* none when principal <= 0 or payment <= 0.  Otherwise every row it returns
\* is of a period whose interest the payment covers, every row before the
\* last has a positive balance and the fixed payment as its payment, and the
\* schedule ends for one of three reasons: the payment does not cover the
\* interest of the next period, the last row has balance <= 0, or max_months
\* rows were produced.
C25_FixedPaymentStops ==
    op = "build_fixed_payment_schedule" =>
        /\ Len(ret) <= IMax(args.max_months, 0)
        /\ (RLe(args.principal, Zero) \/ RLe(args.payment, Zero)) => ret = <<>>
        /\ (RLt(Zero, args.principal) /\ RLt(Zero, args.payment)) =>
            /\ \A i \in 1..Len(ret) : Covers(OpeningBalance(args.principal, ret, i))
            /\ \A i \in 1..(Len(ret) - 1) :
                   RLt(Zero, ret[i].balance) /\ ret[i].payment = args.payment
            /\ \/ ~Covers(OpeningBalance(args.principal, ret, Len(ret) + 1))
               \/ ret # <<>> /\ RLe(ret[Len(ret)].balance, Zero)
               \/ Len(ret) = IMax(args.max_months, 0)

\* A schedule of several rows stopped by the ceiling with a balance left,
\* at a rate above zero.
C25_Witness ==
    /\ op = "build_fixed_payment_schedule"
    /\ RLt(Zero, args.rate)
    /\ Len(ret) = args.max_months /\ Len(ret) >= 3
    /\ RLt(Zero, ret[Len(ret)].balance)

\* A positive payment that does not cover the first interest: no row.
C25_UncoveredWitness ==
    /\ op = "build_fixed_payment_schedule"
    /\ RLt(Zero, args.principal) /\ RLt(Zero, args.payment) /\ args.max_months > 0
    /\ ~Covers(args.principal)
    /\ ret = <<>>

----------------------------------------------------------------------------
(* simulate and the sign of the rate *)

\* Every numeric field of the result other than paid_periods is 0, the
\* schedules and interest_by_year are empty and there is no critical point.
AllZero(result) ==
    /\ result.remaining_months = 0 /\ result.shorten_months = 0
    /\ \A f \in {"remaining_principal", "original_monthly_payment",
                  "reduced_monthly_payment", "base_remaining_interest",
                  "reduced_remaining_interest", "shorten_remaining_interest",
                  "savings_reduce", "savings_shorten"} :
         result[f] = Zero
    /\ \A f \in {"base_schedule", "reduced_schedule", "shorten_schedule"} :
         result[f] = <<>>
    /\ DOMAIN result.interest_by_year = {}
    /\ result.critical_month_index = None
    /\ result.critical_reason = None

\* C23: simulate called with a negative annual_rate, a positive principal, a
\* positive term and a supported method returns the all-zero result: it
\* does not raise and it builds no schedule from the negative rate.
C23_NegativeRateAllZero ==
    (/\ op = "simulate"
     /\ RLt(args.params.annual_rate, Zero)
     /\ RLt(Zero, args.params.principal) /\ args.params.term_months > 0
     /\ ~normalize_method(args.params.method).raised)
    => ~ret.raised /\ AllZero(ret.value)

\* The prepayment is partial: 0 <= amount < remaining principal, on a loan
\* with a rate >= 0.
PartialPrepayment ==
    /\ SimulateReturned
    /\ RLe(Zero, args.params.annual_rate)
    /\ RLe(Zero, args.prepayment.amount)
    /\ RLt(args.prepayment.amount, ret.value.remaining_principal)

----------------------------------------------------------------------------
(* The two date helpers *)

\* a <= b for two dates.
DateLe(a, b) == ~DateLt(b, a)

\* C27: for start <= end, _months_between(start, end) is the largest N >= 0
\* with _add_months(start, N) <= end; and it is 0 whenever end <= start.
C27_WholeMonthsAgree ==
    op = "_months_between" =>
        /\ DateLe(args.end, args.start) => ret = 0
        /\ DateLe(args.start, args.end) =>
            /\ ret >= 0
            /\ DateLe(_add_months(args.start, ret), args.end)
            /\ \A k \in 0..24 : DateLe(_add_months(args.start, k), args.end) => k <= ret

----------------------------------------------------------------------------
(* The Content-Disposition header of the exports *)

IsAscii(text) == \A i \in 1..Len(text) : text[i] < 128

\* The handler of the request got as far as computing the schedules.
SchedulesBuilt == Called("simulate") \/ Called("build_schedule")

\* C24: on both export endpoints the value the handler gives the
\* Content-Disposition header of its response consists of ASCII characters
\* only.
C24_AsciiContentDisposition ==
    /\ (op = "export_zip" /\ SchedulesBuilt) => IsAscii(export_zip_disposition)
    /\ (op = "export_combined_schedule" /\ ret.status = 200) =>
           IsAscii(ret.headers["Content-Disposition"])

----------------------------------------------------------------------------
(* A prepayment of nothing *)

\* simulate has returned for a loan at a rate >= 0 with periods still to pay
\* and a prepayment amount of 0.
ZeroPrepayment ==
    /\ SimulateReturned
    /\ RLe(Zero, args.params.annual_rate)
    /\ ret.value.remaining_months > 0
    /\ args.prepayment.amount = Zero

\* C29: a zero prepayment changes nothing: both savings are 0, the reduced
\* payment is the original payment and, under equal_payment, the shorten
\* schedule takes the remaining months.
C29_ZeroPrepaymentChangesNothing ==
    ZeroPrepayment =>
        /\ ret.value.savings_reduce = Zero
        /\ ret.value.savings_shorten = Zero
        /\ ret.value.reduced_monthly_payment = ret.value.original_monthly_payment
        /\ normalize_method(args.params.method) = Ok("equal_payment") =>
               ret.value.shorten_months = ret.value.remaining_months

----------------------------------------------------------------------------
(* The row ceiling under the default limits *)

\* An export request that passed validation and built its schedules, served
\* with the default MAX_SCHEDULE_ROWS.
DefaultRowCheck ==
    /\ op \in {"export_zip", "export_combined_schedule"}
    /\ args.max_schedule_rows = MAX_SCHEDULE_ROWS
    /\ Called("_ensure_row_limit")

\* The row counts handed to _ensure_row_limit, in order.
RowCounts ==
    LET checks == SelectSeq(calls, LAMBDA c : c.fn = "_ensure_row_limit")
    IN  [i \in 1..Len(checks) |-> checks[i].arg]

\* C30: under the default limits no validated export request is answered
\* 413 for its row count: term_months is at most MAX_TERM_MONTHS, the base,
\* reduced and combined schedules have at most term_months rows and the
\* shorten schedule at most 2 x term_months, all below MAX_SCHEDULE_ROWS.
C30_RowCeilingUnreachable ==
    DefaultRowCheck =>
        /\ args.json.term_months <= MAX_TERM_MONTHS
        /\ 2 * MAX_TERM_MONTHS < MAX_SCHEDULE_ROWS
        /\ \A i \in 1..Len(RowCounts) :
              /\ RowCounts[i] < MAX_SCHEDULE_ROWS
              /\ RowCounts[i] <= (IF op = "export_zip" /\ i = 3
                                  THEN 2 * args.json.term_months
                                  ELSE args.json.term_months)
        /\ ~(ret.status = 413 /\ calls[Len(calls)].fn = "_ensure_row_limit")

\* An export-zip request for a loan with all its periods left whose three
\* schedules were checked and passed.
C30_Witness ==
    /\ DefaultRowCheck
    /\ op = "export_zip"
    /\ Len(RowCounts) = 3
    /\ RowCounts[1] = args.json.term_months
    /\ RowCounts[2] = args.json.term_months
    /\ RowCounts[3] >= 2
    /\ Called("generate_pdf")

----------------------------------------------------------------------------
(* The shorten schedule of a partial prepayment *)

\* C28: for a loan at a rate >= 0 and a prepayment amount in
\* [0, remaining principal) the shorten schedule runs to the end: its last
\* row has balance 0 and it has at most remaining_months rows.
C28_ShortenRunsToZero ==
    (PartialPrepayment /\ ret.value.remaining_months > 0) =>
        /\ ret.value.shorten_schedule # <<>>
        /\ ret.value.shorten_schedule[Len(ret.value.shorten_schedule)].balance = Zero
        /\ ret.value.shorten_months <= ret.value.remaining_months

----------------------------------------------------------------------------
(* The recurring endpoints *)

RecurringRoutes ==
    {"calc_recurring_extra", "calc_scheduled_recurring", "calc_lump_sum_recurring",
     "calc_annual_recurring"}

\* A recurring endpoint has answered 200.
RecurringAnswered == op \in RecurringRoutes /\ ret.status = 200

\* The date the answered simulation starts from: none on recurring:calc,
\* the repayment date or the as-of date elsewhere.
SimulationDate ==
    IF op = "calc_recurring_extra" THEN None
    ELSE IF op = "calc_lump_sum_recurring" THEN Some(ret.content.repayment_date)
    ELSE Some(ret.content.as_of_date)

\* The principal still owed when the answered simulation starts, and the
\* periods the base schedule has left, from the loan the engine was given.
OwedAtStart ==
    LET params == calls[1].arg
        full == build_schedule(params.principal, monthly_rate(params.annual_rate),
                               params.term_months, normalize_method(params.method).value)
        paid == compute_paid_periods(params, SimulationDate, args.clock)
    IN  [principal |-> IF paid <= 0 THEN params.principal ELSE full[paid].balance,
         months |-> Len(full) - paid]

=============================================================================
